---- MODULE Spec2Model ----
(***************************************************************************)
(* jsongrep: a query over JSON paths is parsed to an AST, compiled by      *)
(* Glushkov's construction to an epsilon-free NFA, determinized to a DFA   *)
(* and run over the JSON tree by a depth-first walk.                       *)
(*                                                                         *)
(* Text is a sequence of one-character strings; a field name is such a     *)
(* sequence too.  Vec positions are 0-based as in the Rust code; TLA+      *)
(* sequences are 1-based, so Vec index i is sequence index i + 1.          *)
(***************************************************************************)
EXTENDS Integers, Sequences, FiniteSets, TLC

\* Width of the machine word of the model (usize); usize::MAX is 2^UsizeBits - 1.
UsizeBits == 4
UsizeMax == 2^UsizeBits - 1

\* Option<usize>::None
None == -1

(***************************************************************************)
(* Query AST (ast.rs).  Every node is a record of one shape.               *)
(***************************************************************************)
Node(t, name, lo, hi, qs) == [t |-> t, name |-> name, lo |-> lo, hi |-> hi, qs |-> qs]
QField(name) == Node("Field", name, None, None, <<>>)
QIndex(i) == Node("Index", <<>>, i, None, <<>>)
QRange(lo, hi) == Node("Range", <<>>, lo, hi, <<>>)
QRangeFrom(lo) == Node("RangeFrom", <<>>, lo, None, <<>>)
QFieldWildcard == Node("FieldWildcard", <<>>, None, None, <<>>)
QArrayWildcard == Node("ArrayWildcard", <<>>, None, None, <<>>)
QRegex(re) == Node("Regex", re, None, None, <<>>)
QOptional(q) == Node("Optional", <<>>, None, None, <<q>>)
QKleeneStar(q) == Node("KleeneStar", <<>>, None, None, <<q>>)
QDisjunction(qs) == Node("Disjunction", <<>>, None, None, qs)
QSequence(qs) == Node("Sequence", <<>>, None, None, qs)

IsAtom(q) == q.t \in {"Field", "Index", "Range", "RangeFrom", "ArrayWildcard", "FieldWildcard", "Regex"}

RECURSIVE HasRegex(_)
HasRegex(q) ==
    \/ q.t = "Regex"
    \/ \E i \in 1..Len(q.qs) : HasRegex(q.qs[i])

(***************************************************************************)
(* Transition labels (common.rs).                                          *)
(***************************************************************************)
Label(l, name, lo, hi) == [l |-> l, name |-> name, lo |-> lo, hi |-> hi]
LField(name) == Label("Field", name, 0, 0)
LFieldWildcard == Label("FieldWildcard", <<>>, 0, 0)
LRange(lo, hi) == Label("Range", <<>>, lo, hi)
LRangeFrom(lo) == Label("RangeFrom", <<>>, lo, 0)
LOther == Label("Other", <<>>, 0, 0)

\* Option::unwrap_or
UnwrapOr(o, d) == IF o = None THEN d ELSE o

\* usize addition: wraps modulo 2^UsizeBits (release build)
WrapAdd(a, b) == (a + b) % (UsizeMax + 1)

(***************************************************************************)
(* Glushkov NFA (nfa.rs).                                                  *)
(***************************************************************************)
RECURSIVE linearize_query(_)
linearize_query(q) ==
    CASE q.t = "Field" -> <<LField(q.name)>>
      [] q.t = "FieldWildcard" -> <<LFieldWildcard>>
      [] q.t = "Index" -> <<LRange(q.lo, WrapAdd(q.lo, 1))>>
      [] q.t = "Range" -> <<LRange(UnwrapOr(q.lo, 0), UnwrapOr(q.hi, UsizeMax))>>
      [] q.t = "RangeFrom" -> <<LRangeFrom(q.lo)>>
      [] q.t = "ArrayWildcard" -> <<LRange(0, UsizeMax)>>
      [] q.t \in {"Disjunction", "Sequence"} ->
            IF q.qs = <<>> THEN <<>>
            ELSE linearize_query(Head(q.qs)) \o linearize_query(Node(q.t, <<>>, None, None, Tail(q.qs)))
      [] q.t \in {"KleeneStar", "Optional"} -> linearize_query(q.qs[1])
      [] OTHER -> <<>>

RECURSIVE contains_empty_word(_)
contains_empty_word(q) ==
    CASE q.t = "Sequence" -> \A i \in 1..Len(q.qs) : contains_empty_word(q.qs[i])
      [] q.t = "Disjunction" -> \E i \in 1..Len(q.qs) : contains_empty_word(q.qs[i])
      [] q.t \in {"Optional", "KleeneStar"} -> TRUE
      [] OTHER -> FALSE

RECURSIVE count_subquery_positions(_)
count_subquery_positions(q) ==
    CASE q.t \in {"Sequence", "Disjunction"} ->
            IF q.qs = <<>> THEN 0
            ELSE count_subquery_positions(Head(q.qs))
                 + count_subquery_positions(Node(q.t, <<>>, None, None, Tail(q.qs)))
      [] q.t \in {"Optional", "KleeneStar"} -> count_subquery_positions(q.qs[1])
      [] OTHER -> 1

\* sum of subquery_lengths[..i] (i is a 0-based Vec index)
RECURSIVE PrefixLen(_, _)
PrefixLen(qs, i) ==
    IF i = 0 THEN 0 ELSE PrefixLen(qs, i - 1) + count_subquery_positions(qs[i])

\* The result of a walk: the bits set in the bitmap and the position counter
\* after the walk.
Walk(s, pos) == [s |-> s, pos |-> pos]

\* compute_first_set(first_set, query, position) on a bitmap of length n.
\* The Sequence arm leaves the counter where the last visited child left it.
RECURSIVE compute_first_set(_, _, _)
RECURSIVE FirstDisj(_, _, _, _)
RECURSIVE FirstSeq(_, _, _, _)
compute_first_set(q, pos, n) ==
    CASE IsAtom(q) -> IF pos < n THEN Walk({pos}, pos + 1) ELSE Walk({}, pos)
      [] q.t = "Disjunction" -> FirstDisj(q.qs, 1, pos, n)
      [] q.t = "Sequence" -> FirstSeq(q.qs, 1, pos, n)
      [] OTHER -> compute_first_set(q.qs[1], pos, n)
FirstDisj(qs, i, pos, n) ==
    IF i > Len(qs) THEN Walk({}, pos)
    ELSE LET r == compute_first_set(qs[i], pos, n)
             rest == FirstDisj(qs, i + 1, pos + count_subquery_positions(qs[i]), n)
         IN  Walk(r.s \cup rest.s, rest.pos)
FirstSeq(qs, i, pos, n) ==
    IF i > Len(qs) THEN Walk({}, pos)
    ELSE LET r == compute_first_set(qs[i], pos, n)
         IN  IF ~contains_empty_word(qs[i]) THEN r
             ELSE LET rest == FirstSeq(qs, i + 1, r.pos, n)
                  IN  Walk(r.s \cup rest.s, rest.pos)

\* compute_last_set(last_set, query, position) on a bitmap of length n.
RECURSIVE compute_last_set(_, _, _)
RECURSIVE LastDisj(_, _, _, _)
RECURSIVE LastSeq(_, _, _, _)
\* Variant of the reverse loop that does not stop at a child that is not
\* nullable; the Last property must tell it from LastSeq.
RECURSIVE LastSeq_without_break(_, _, _, _)
LastSeq_without_break(qs, i, seq_start_pos, n) ==
    IF i < 1 THEN {}
    ELSE compute_last_set(qs[i], seq_start_pos + PrefixLen(qs, i - 1), n).s
            \cup LastSeq_without_break(qs, i - 1, seq_start_pos, n)

compute_last_set(q, pos, n) ==
    CASE IsAtom(q) -> IF pos < n THEN Walk({pos}, pos + 1) ELSE Walk({}, pos)
      [] q.t = "Disjunction" -> LastDisj(q.qs, 1, pos, n)
      [] q.t = "Sequence" ->
            Walk(LastSeq(q.qs, Len(q.qs), pos, n), pos + PrefixLen(q.qs, Len(q.qs)))
      [] OTHER -> compute_last_set(q.qs[1], pos, n)
LastDisj(qs, i, pos, n) ==
    IF i > Len(qs) THEN Walk({}, pos)
    ELSE LET r == compute_last_set(qs[i], pos, n)
             rest == LastDisj(qs, i + 1, pos + count_subquery_positions(qs[i]), n)
         IN  Walk(r.s \cup rest.s, rest.pos)
\* the children i, i-1, .. of the reverse loop; seq_start_pos is the start
LastSeq(qs, i, seq_start_pos, n) ==
    IF i < 1 THEN {}
    ELSE LET r == compute_last_set(qs[i], seq_start_pos + PrefixLen(qs, i - 1), n)
         IN  IF ~contains_empty_word(qs[i]) THEN r.s
             ELSE r.s \cup LastSeq(qs, i - 1, seq_start_pos, n)

\* the positions start .. end - 1 of a bitmap
InRange(s, start, end) == {p \in s : start <= p /\ p < end}

\* D(left) x P(right): the pairs pushed onto factors[left_idx]
BoundaryPairs(left, right) == {<<i, j>> : i \in left, j \in right}

\* compute_follows_set(factors, query, position), factors.len() = n.  The
\* result holds the pairs <<i, j>> with j pushed onto factors[i].
RECURSIVE compute_follows_set(_, _, _)
RECURSIVE FollowsChildren(_, _, _, _)
RECURSIVE SeqPairsFrom(_, _, _, _, _)
RECURSIVE SeqPairs(_, _, _, _)
compute_follows_set(q, pos, n) ==
    CASE IsAtom(q) -> Walk({}, pos + 1)
      [] q.t = "Disjunction" -> FollowsChildren(q.qs, 1, pos, n)
      [] q.t = "Sequence" ->
            LET inner == FollowsChildren(q.qs, 1, pos, n)
            IN  Walk(inner.s \cup SeqPairs(q.qs, 1, pos, n), inner.pos)
      [] q.t = "KleeneStar" ->
            LET inner == compute_follows_set(q.qs[1], pos, n)
                q_len == count_subquery_positions(q.qs[1])
                last_set == InRange(compute_last_set(q.qs[1], pos, n).s, pos, pos + q_len)
                first_set == InRange(compute_first_set(q.qs[1], pos, n).s, pos, pos + q_len)
            IN  Walk(inner.s \cup BoundaryPairs(last_set, first_set), inner.pos)
      [] OTHER -> compute_follows_set(q.qs[1], pos, n)
\* the factors of the children i.. of a Disjunction or Sequence, one after another
FollowsChildren(qs, i, pos, n) ==
    IF i > Len(qs) THEN Walk({}, pos)
    ELSE LET r == compute_follows_set(qs[i], pos, n)
             rest == FollowsChildren(qs, i + 1, r.pos, n)
         IN  Walk(r.s \cup rest.s, rest.pos)
\* inner loop of the boundary pairing: left child i against right children j..
SeqPairsFrom(qs, i, j, seq_start, n) ==
    IF j > Len(qs) THEN {}
    ELSE LET left_start == seq_start + PrefixLen(qs, i - 1)
             left_end == left_start + count_subquery_positions(qs[i])
             right_start == seq_start + PrefixLen(qs, j - 1)
             right_end == right_start + count_subquery_positions(qs[j])
             left_last == InRange(compute_last_set(qs[i], left_start, n).s, left_start, left_end)
             right_first == InRange(compute_first_set(qs[j], right_start, n).s, right_start, right_end)
             here == BoundaryPairs(left_last, right_first)
         IN  IF ~contains_empty_word(qs[j]) THEN here
             ELSE here \cup SeqPairsFrom(qs, i, j + 1, seq_start, n)
\* outer loop of the boundary pairing: left children i..
SeqPairs(qs, i, seq_start, n) ==
    IF i > Len(qs) THEN {}
    ELSE SeqPairsFrom(qs, i, i + 1, seq_start, n) \cup SeqPairs(qs, i + 1, seq_start, n)

\* QueryNFA::from_query followed by construct_nfa.  NFA state p + 1 stands
\* for position p; transitions[s] is the set of <<label_idx, dest>> pairs.
\* With no position the early return leaves `transitions` an empty Vec.
NFA_from_query(q) ==
    LET pos_to_label == linearize_query(q)
        alphabet_size == Len(pos_to_label)
    IN  IF alphabet_size = 0
        THEN [num_states |-> 1, pos_to_label |-> <<>>, start_state |-> 0,
              is_accepting |-> {0}, is_first |-> {}, is_ending |-> {},
              factors |-> {}, contains_empty_word |-> TRUE,
              transitions |-> {}, rows |-> 0]
        ELSE LET is_first == compute_first_set(q, 0, alphabet_size).s
                 is_ending == compute_last_set(q, 0, alphabet_size).s
                 factors == compute_follows_set(q, 0, alphabet_size).s
                 nullable == contains_empty_word(q)
             IN  [num_states |-> 1 + alphabet_size, pos_to_label |-> pos_to_label,
                  start_state |-> 0,
                  is_accepting |-> (IF nullable THEN {0} ELSE {}) \cup {p + 1 : p \in is_ending},
                  is_first |-> is_first, is_ending |-> is_ending,
                  factors |-> factors, contains_empty_word |-> nullable,
                  transitions |-> {<<0, p, p + 1>> : p \in is_first}
                                  \cup {<<f[1] + 1, f[2], f[2] + 1>> : f \in factors},
                  rows |-> 1 + alphabet_size]

(***************************************************************************)
(* Alphabet builder and determinizer (dfa.rs, DFABuilder).                 *)
(***************************************************************************)
\* transitions[state][symbol] = None
Dead == -1

\* The Field names of the query in the order extract_symbols meets them.
RECURSIVE FieldsInOrder(_)
FieldsInOrder(q) ==
    CASE q.t = "Field" -> <<q.name>>
      [] q.t \in {"Disjunction", "Sequence"} ->
            IF q.qs = <<>> THEN <<>>
            ELSE FieldsInOrder(Head(q.qs)) \o FieldsInOrder(Node(q.t, <<>>, None, None, Tail(q.qs)))
      [] q.t \in {"KleeneStar", "Optional"} -> FieldsInOrder(q.qs[1])
      [] OTHER -> <<>>

\* Variant of the insertion that pushes a symbol for every occurrence of a
\* name (no entry() lookup); the determinism property must tell it from
\* InsertFields.
RECURSIVE InsertFields_every_occurrence(_, _)
InsertFields_every_occurrence(alphabet, names) ==
    IF names = <<>> THEN alphabet
    ELSE InsertFields_every_occurrence(Append(alphabet, LField(Head(names))), Tail(names))

\* entry(name).or_insert_with: a name gets a symbol the first time only
RECURSIVE InsertFields(_, _)
InsertFields(alphabet, names) ==
    IF names = <<>> THEN alphabet
    ELSE IF \E i \in 1..Len(alphabet) : alphabet[i] = LField(Head(names))
         THEN InsertFields(alphabet, Tail(names))
         ELSE InsertFields(Append(alphabet, LField(Head(names))), Tail(names))

\* collected_ranges after extract_symbols
RECURSIVE collected_ranges(_)
collected_ranges(q) ==
    CASE q.t = "Index" -> <<<<q.lo, WrapAdd(q.lo, 1)>>>>
      [] q.t = "Range" -> <<<<UnwrapOr(q.lo, 0), UnwrapOr(q.hi, UsizeMax)>>>>
      [] q.t = "RangeFrom" -> <<<<q.lo, UsizeMax>>>>
      [] q.t = "ArrayWildcard" -> <<<<0, UsizeMax>>>>
      [] q.t \in {"Disjunction", "Sequence"} ->
            IF q.qs = <<>> THEN <<>>
            ELSE collected_ranges(Head(q.qs)) \o collected_ranges(Node(q.t, <<>>, None, None, Tail(q.qs)))
      [] q.t \in {"KleeneStar", "Optional"} -> collected_ranges(q.qs[1])
      [] OTHER -> <<>>

\* Variant of the builder that starts from an empty alphabet (no Other); the
\* symbol-0 property must tell it from extract_symbols.
extract_symbols_without_other(q) ==
    LET alphabet == InsertFields(<<>>, FieldsInOrder(q))
    IN  [alphabet |-> alphabet,
         key_to_key_id |-> {<<alphabet[i].name, i - 1>> : i \in 1..Len(alphabet)},
         collected_ranges |-> collected_ranges(q)]

\* Variant of the builder that records a symbol for a FieldWildcard of the
\* query instead of lowering it; the alphabet property must tell it from
\* extract_symbols.
extract_symbols_recording_wildcard(q) ==
    LET alphabet == InsertFields(<<LOther>>, FieldsInOrder(q))
                      \o (IF \E i \in 1..Len(linearize_query(q)) : linearize_query(q)[i] = LFieldWildcard
                          THEN <<LFieldWildcard>> ELSE <<>>)
    IN  [alphabet |-> alphabet,
         key_to_key_id |-> {<<alphabet[i].name, i - 1>> :
                              i \in {k \in 2..Len(alphabet) : alphabet[k].l = "Field"}},
         collected_ranges |-> collected_ranges(q)]

\* DFABuilder::new followed by extract_symbols: alphabet and key_to_key_id
\* (a symbol's id is its Vec index, i.e. its sequence index minus one)
extract_symbols(q) ==
    LET alphabet == InsertFields(<<LOther>>, FieldsInOrder(q))
    IN  [alphabet |-> alphabet,
         key_to_key_id |-> {<<alphabet[i].name, i - 1>> : i \in 2..Len(alphabet)},
         collected_ranges |-> collected_ranges(q)]

\* sort_unstable + dedup of a set of endpoints
RECURSIVE SortedPoints(_)
SortedPoints(S) ==
    IF S = {} THEN <<>>
    ELSE LET m == CHOOSE x \in S : \A y \in S : x <= y
         IN  <<m>> \o SortedPoints(S \ {m})

\* the endpoints finalize_ranges collects: those of the ranges with start < end
RangePoints(ranges) ==
    UNION {{ranges[i][1], ranges[i][2]} : i \in {k \in 1..Len(ranges) : ranges[k][1] < ranges[k][2]}}

\* the collected ranges with start < end, those of least start first
RECURSIVE RawRanges(_)
RawRanges(S) ==
    IF S = {} THEN <<>>
    ELSE LET m == CHOOSE x \in S : \A y \in S : x[1] < y[1] \/ (x[1] = y[1] /\ x[2] <= y[2])
         IN  <<m>> \o RawRanges(S \ {m})

\* Variant of finalize_ranges that makes every collected range a symbol as it
\* is, without cutting at the endpoints of the others; the range property
\* must tell it from finalize_ranges.
finalize_ranges_uncut(b) ==
    LET raw == RawRanges({b.collected_ranges[i] :
                            i \in {k \in 1..Len(b.collected_ranges) :
                                      b.collected_ranges[k][1] < b.collected_ranges[k][2]}})
        base == Len(b.alphabet)
    IN  [alphabet |-> b.alphabet \o [i \in 1..Len(raw) |-> LRange(raw[i][1], raw[i][2])],
         key_to_key_id |-> b.key_to_key_id,
         range_to_range_id |-> [i \in 1..Len(raw) |->
                                  [start |-> raw[i][1], end |-> raw[i][2], id |-> base + i - 1]]]

\* Variant of finalize_ranges that takes the endpoints of every collected
\* range, those with start >= end too; the half-open-range property must
\* tell it from finalize_ranges.
finalize_ranges_keeping_empty(b) ==
    LET points == SortedPoints(UNION {{b.collected_ranges[i][1], b.collected_ranges[i][2]}
                                         : i \in 1..Len(b.collected_ranges)})
        count == IF Len(points) = 0 THEN 0 ELSE Len(points) - 1
        base == Len(b.alphabet)
    IN  [alphabet |-> b.alphabet \o [i \in 1..count |-> LRange(points[i], points[i + 1])],
         key_to_key_id |-> b.key_to_key_id,
         range_to_range_id |-> [i \in 1..count |->
                                  [start |-> points[i], end |-> points[i + 1], id |-> base + i - 1]]]

\* Variant of finalize_ranges that cuts at the start of every collected
\* range and at the greatest end only; the refinement property must tell it
\* from finalize_ranges.
finalize_ranges_cut_at_starts(b) ==
    LET valid == {k \in 1..Len(b.collected_ranges) : b.collected_ranges[k][1] < b.collected_ranges[k][2]}
        ends == {b.collected_ranges[k][2] : k \in valid}
        points == SortedPoints({b.collected_ranges[k][1] : k \in valid}
                                 \cup {e \in ends : \A f \in ends : f <= e})
        count == IF Len(points) = 0 THEN 0 ELSE Len(points) - 1
        base == Len(b.alphabet)
    IN  [alphabet |-> b.alphabet \o [i \in 1..count |-> LRange(points[i], points[i + 1])],
         key_to_key_id |-> b.key_to_key_id,
         range_to_range_id |-> [i \in 1..count |->
                                  [start |-> points[i], end |-> points[i + 1], id |-> base + i - 1]]]

\* Variant of finalize_ranges that keeps only the segments inside some
\* collected range and drops the gaps between them; the adjacency property
\* must tell it from finalize_ranges.
finalize_ranges_skipping_gaps(b) ==
    LET points == SortedPoints(RangePoints(b.collected_ranges))
        count == IF Len(points) = 0 THEN 0 ELSE Len(points) - 1
        Inside(seg) == \E k \in 1..Len(b.collected_ranges) :
                          b.collected_ranges[k][1] <= seg[1] /\ seg[2] <= b.collected_ranges[k][2]
        kept == SelectSeq([i \in 1..count |-> <<points[i], points[i + 1]>>], Inside)
        base == Len(b.alphabet)
    IN  [alphabet |-> b.alphabet \o [i \in 1..Len(kept) |-> LRange(kept[i][1], kept[i][2])],
         key_to_key_id |-> b.key_to_key_id,
         range_to_range_id |-> [i \in 1..Len(kept) |->
                                  [start |-> kept[i][1], end |-> kept[i][2], id |-> base + i - 1]]]

\* finalize_ranges: consecutive endpoints become the disjoint ranges, each
\* with the next free symbol id; range_to_range_id is sorted by start.
finalize_ranges(b) ==
    LET points == SortedPoints(RangePoints(b.collected_ranges))
        count == IF Len(points) = 0 THEN 0 ELSE Len(points) - 1
        base == Len(b.alphabet)
    IN  [alphabet |-> b.alphabet \o [i \in 1..count |-> LRange(points[i], points[i + 1])],
         key_to_key_id |-> b.key_to_key_id,
         range_to_range_id |-> [i \in 1..count |->
                                  [start |-> points[i], end |-> points[i + 1], id |-> base + i - 1]]]

\* Variant of the match in which a FieldWildcard takes the Other symbol only
\* and not the symbols of the names of the query; the edge-kind property
\* must tell it from Covers.
Covers_other_keys_only(nfa_label, dfa_symbol) ==
    \/ /\ nfa_label.l = "Field" /\ dfa_symbol.l = "Field"
       /\ nfa_label.name = dfa_symbol.name
    \/ /\ nfa_label.l \in {"FieldWildcard", "Other"} /\ dfa_symbol.l = "Other"
    \/ /\ nfa_label = LRange(0, UsizeMax) /\ dfa_symbol.l = "Range"
    \/ /\ nfa_label.l = "Range" /\ dfa_symbol.l = "Range"
       /\ nfa_label.lo <= dfa_symbol.lo /\ dfa_symbol.hi <= nfa_label.hi
    \/ /\ nfa_label.l = "RangeFrom" /\ dfa_symbol.l = "Range"
       /\ nfa_label.lo <= dfa_symbol.lo

\* Variant of the match without the arm of RangeFrom; the property of the
\* unbounded ranges must tell it from Covers.
Covers_without_range_from(nfa_label, dfa_symbol) ==
    \/ /\ nfa_label.l = "Field" /\ dfa_symbol.l = "Field"
       /\ nfa_label.name = dfa_symbol.name
    \/ /\ nfa_label.l \in {"FieldWildcard", "Other"} /\ dfa_symbol.l = "Other"
    \/ /\ nfa_label.l = "FieldWildcard" /\ dfa_symbol.l = "Field"
    \/ /\ nfa_label = LRange(0, UsizeMax) /\ dfa_symbol.l = "Range"
    \/ /\ nfa_label.l = "Range" /\ dfa_symbol.l = "Range"
       /\ nfa_label.lo <= dfa_symbol.lo /\ dfa_symbol.hi <= nfa_label.hi

\* Variant of the match in which a Range takes every segment that starts at
\* or after its start, whatever its end; the property of the used symbols
\* must tell it from Covers.
Covers_from_range_start(nfa_label, dfa_symbol) ==
    \/ /\ nfa_label.l = "Field" /\ dfa_symbol.l = "Field"
       /\ nfa_label.name = dfa_symbol.name
    \/ /\ nfa_label.l \in {"FieldWildcard", "Other"} /\ dfa_symbol.l = "Other"
    \/ /\ nfa_label.l = "FieldWildcard" /\ dfa_symbol.l = "Field"
    \/ /\ nfa_label = LRange(0, UsizeMax) /\ dfa_symbol.l = "Range"
    \/ /\ nfa_label.l \in {"Range", "RangeFrom"} /\ dfa_symbol.l = "Range"
       /\ nfa_label.lo <= dfa_symbol.lo

\* the match of determinize_nfa: does the NFA label take the DFA symbol?
Covers(nfa_label, dfa_symbol) ==
    \/ /\ nfa_label.l = "Field" /\ dfa_symbol.l = "Field"
       /\ nfa_label.name = dfa_symbol.name
    \/ /\ nfa_label.l \in {"FieldWildcard", "Other"} /\ dfa_symbol.l = "Other"
    \/ /\ nfa_label.l = "FieldWildcard" /\ dfa_symbol.l = "Field"
    \/ /\ nfa_label = LRange(0, UsizeMax) /\ dfa_symbol.l = "Range"
    \/ /\ nfa_label.l = "Range" /\ dfa_symbol.l = "Range"
       /\ nfa_label.lo <= dfa_symbol.lo /\ dfa_symbol.hi <= nfa_label.hi
    \/ /\ nfa_label.l = "RangeFrom" /\ dfa_symbol.l = "Range"
       /\ nfa_label.lo <= dfa_symbol.lo

\* next_nfa_states of one DFA state (a set of NFA states) on one symbol
NextNfaStates(nfa, current_set, dfa_symbol) ==
    {t[3] : t \in {u \in nfa.transitions :
                      u[1] \in current_set /\ Covers(nfa.pos_to_label[u[2] + 1], dfa_symbol)}}

\* Variant of the lookup that takes two sets with the same number of NFA
\* states for the same DFA state (a lookup by a weak key); the language
\* property must tell it from StateOf.
StateOf_by_size(dfa_states, set) ==
    IF \E i \in 1..Len(dfa_states) : Cardinality(dfa_states[i]) = Cardinality(set)
    THEN CHOOSE i \in 1..Len(dfa_states) : Cardinality(dfa_states[i]) = Cardinality(set)
    ELSE 0

\* Variant of the lookup that does not find the set interned last (the map
\* entry written after the lookup of the next symbol); the property of the
\* sets interned once must tell it from StateOf.
StateOf_missing_last(dfa_states, set) ==
    IF \E i \in 1..(Len(dfa_states) - 1) : dfa_states[i] = set
    THEN CHOOSE i \in 1..(Len(dfa_states) - 1) : dfa_states[i] = set
    ELSE 0

\* index of a set among dfa_states, 0 when it is not interned yet
StateOf(dfa_states, set) ==
    IF \E i \in 1..Len(dfa_states) : dfa_states[i] = set
    THEN CHOOSE i \in 1..Len(dfa_states) : dfa_states[i] = set
    ELSE 0

\* The work queue holds the sets in the order they were interned, so the
\* set popped next is dfa_states[cur]; d carries dfa_states and transitions.
\* DetSymbols is the loop over the alphabet for DFA state cur - 1.
RECURSIVE DetSymbols(_, _, _, _, _)
DetSymbols(nfa, alphabet, d, cur, sym) ==
    IF sym > Len(alphabet) THEN d
    ELSE LET next == NextNfaStates(nfa, d.dfa_states[cur], alphabet[sym])
             known == StateOf(d.dfa_states, next)
         IN  IF next = {} THEN DetSymbols(nfa, alphabet, d, cur, sym + 1)
             ELSE IF known # 0
             THEN DetSymbols(nfa, alphabet,
                             [d EXCEPT !.transitions[cur][sym] = known - 1], cur, sym + 1)
             ELSE DetSymbols(nfa, alphabet,
                             [dfa_states |-> Append(d.dfa_states, next),
                              transitions |-> Append([d.transitions EXCEPT ![cur][sym] = Len(d.dfa_states)],
                                                     [k \in 1..Len(alphabet) |-> Dead])],
                             cur, sym + 1)

RECURSIVE DetLoop(_, _, _, _)
DetLoop(nfa, alphabet, d, cur) ==
    IF cur > Len(d.dfa_states) THEN d
    ELSE DetLoop(nfa, alphabet, DetSymbols(nfa, alphabet, d, cur, 1), cur + 1)

\* Variant of determinize_nfa in which a new DFA state accepts when all the
\* NFA states of its set accept (`all` for `any`); the acceptance property
\* must tell it from determinize_nfa.
determinize_nfa_accepting_all(b, nfa) ==
    LET d == DetLoop(nfa, b.alphabet,
                     [dfa_states |-> <<{nfa.start_state}>>,
                      transitions |-> <<[k \in 1..Len(b.alphabet) |-> Dead]>>], 1)
    IN  [num_states |-> Len(d.dfa_states),
         start_state |-> 0,
         is_accepting |-> [i \in 1..Len(d.dfa_states) |->
                              IF i = 1 THEN nfa.start_state \in nfa.is_accepting
                              ELSE d.dfa_states[i] \subseteq nfa.is_accepting],
         transitions |-> d.transitions,
         alphabet |-> b.alphabet,
         key_to_key_id |-> b.key_to_key_id,
         range_to_range_id |-> b.range_to_range_id,
         dfa_states |-> d.dfa_states]

\* determinize_nfa; is_accepting[s + 1] tells whether DFA state s accepts
determinize_nfa(b, nfa) ==
    LET d == DetLoop(nfa, b.alphabet,
                     [dfa_states |-> <<{nfa.start_state}>>,
                      transitions |-> <<[k \in 1..Len(b.alphabet) |-> Dead]>>], 1)
    IN  [num_states |-> Len(d.dfa_states),
         start_state |-> 0,
         is_accepting |-> [i \in 1..Len(d.dfa_states) |->
                              IF i = 1 THEN nfa.start_state \in nfa.is_accepting
                              ELSE d.dfa_states[i] \cap nfa.is_accepting # {}],
         transitions |-> d.transitions,
         alphabet |-> b.alphabet,
         key_to_key_id |-> b.key_to_key_id,
         range_to_range_id |-> b.range_to_range_id,
         dfa_states |-> d.dfa_states]

\* the empty query: Sequence(steps) with steps.is_empty()
IsEmptyQuery(q) == q.t = "Sequence" /\ q.qs = <<>>

\* `*idx + 1` of Index(usize::MAX) overflows: a build with overflow checks
\* panics there, a build without them wraps to 0 and goes on
RECURSIVE index_overflows(_)
index_overflows(q) ==
    \/ q.t = "Index" /\ q.lo = UsizeMax
    \/ \E i \in 1..Len(q.qs) : index_overflows(q.qs[i])

\* build_dfa panics (never returns a DFA): extract_symbols meets a Regex
\* (unimplemented!), or determinize_nfa indexes nfa.transitions[0] of the
\* NFA of a query without positions, whose `transitions` is an empty Vec.
build_dfa_panics(q) ==
    /\ ~IsEmptyQuery(q)
    /\ \/ HasRegex(q)
       \/ NFA_from_query(q).rows = 0

\* Variant of build_dfa whose empty-query automaton does not accept its only
\* state; the identity-query property must tell it from build_dfa.
build_dfa_rejecting_empty(q) ==
    IF IsEmptyQuery(q)
    THEN [num_states |-> 1, start_state |-> 0, is_accepting |-> <<FALSE>>,
          transitions |-> <<>>, alphabet |-> <<>>, key_to_key_id |-> {},
          range_to_range_id |-> <<>>, dfa_states |-> <<{0}>>]
    ELSE determinize_nfa(finalize_ranges(extract_symbols(q)), NFA_from_query(q))

\* build_dfa (= QueryDFA::from_query) when it returns
build_dfa(q) ==
    IF IsEmptyQuery(q)
    THEN [num_states |-> 1, start_state |-> 0, is_accepting |-> <<TRUE>>,
          transitions |-> <<>>, alphabet |-> <<>>, key_to_key_id |-> {},
          range_to_range_id |-> <<>>, dfa_states |-> <<{0}>>]
    ELSE determinize_nfa(finalize_ranges(extract_symbols(q)), NFA_from_query(q))

(***************************************************************************)
(* DFA lookup (dfa.rs, QueryDFA).                                          *)
(***************************************************************************)
is_accepting_state(dfa, state) ==
    state < dfa.num_states /\ dfa.is_accepting[state + 1]

get_field_symbol_id(dfa, field) ==
    IF \E e \in dfa.key_to_key_id : e[1] = field
    THEN (CHOOSE e \in dfa.key_to_key_id : e[1] = field)[2]
    ELSE 0

\* Variant of the search whose comparator takes the end of an interval for
\* a member of it; the agreement with the linear scan must tell it from
\* BinarySearch.
RECURSIVE BinarySearch_inclusive_end(_, _, _, _)
BinarySearch_inclusive_end(ranges, index, left, right) ==
    IF left >= right THEN None
    ELSE LET mid == left + ((right - left) \div 2)
             r == ranges[mid + 1]
         IN  IF index < r.start THEN BinarySearch_inclusive_end(ranges, index, left, mid)
             ELSE IF index > r.end THEN BinarySearch_inclusive_end(ranges, index, mid + 1, right)
             ELSE r.id

\* slice::binary_search_by with the comparator of get_index_symbol_id:
\* Greater when index < start, Less when index >= end, Equal otherwise.
RECURSIVE BinarySearch(_, _, _, _)
BinarySearch(ranges, index, left, right) ==
    IF left >= right THEN None
    ELSE LET mid == left + ((right - left) \div 2)
             r == ranges[mid + 1]
         IN  IF index < r.start THEN BinarySearch(ranges, index, left, mid)
             ELSE IF index >= r.end THEN BinarySearch(ranges, index, mid + 1, right)
             ELSE r.id

\* None when no range holds the index
get_index_symbol_id(dfa, index) ==
    BinarySearch(dfa.range_to_range_id, index, 0, Len(dfa.range_to_range_id))

\* Variant of transition that reads a symbol beyond the alphabet as Other
\* (the default of get_field_symbol_id applied to the column); the
\* well-formedness of the table must tell it from transition.
transition_defaulting_to_other(dfa, state, symbol_id) ==
    IF state < dfa.num_states /\ symbol_id < Len(dfa.alphabet)
    THEN dfa.transitions[state + 1][symbol_id + 1]
    ELSE IF state < dfa.num_states /\ dfa.alphabet # <<>>
    THEN dfa.transitions[state + 1][1]
    ELSE Dead

transition(dfa, state, symbol_id) ==
    IF state < dfa.num_states /\ symbol_id < Len(dfa.alphabet)
    THEN dfa.transitions[state + 1][symbol_id + 1]
    ELSE Dead

(***************************************************************************)
(* JSON values as the matcher reads them: an object is the list of its     *)
(* (key, child) members in iteration order, an array the list of its       *)
(* elements, anything else a leaf.  A node of the document is addressed by *)
(* the list of child numbers (1-based) leading to it from the root; that   *)
(* address stands for the borrow `&value` of a match record.               *)
(***************************************************************************)
JObject(keys, kids) == [kind |-> "Object", keys |-> keys, kids |-> kids, val |-> 0]
JArray(kids) == [kind |-> "Array", keys |-> <<>>, kids |-> kids, val |-> 0]
JLeaf(v) == [kind |-> "Leaf", keys |-> <<>>, kids |-> <<>>, val |-> v]

RECURSIVE ValueAt(_, _)
ValueAt(json, node) ==
    IF node = <<>> THEN json ELSE ValueAt(json.kids[Head(node)], Tail(node))

\* PathType
PField(name) == [p |-> "Field", name |-> name, idx |-> 0]
PIndex(i) == [p |-> "Index", name |-> <<>>, idx |-> i]

\* the path element of the k-th child of a value (k is 1-based)
EdgeOf(value, k) ==
    IF value.kind = "Object" THEN PField(value.keys[k]) ELSE PIndex(k - 1)

\* the symbol the matcher looks up for the k-th child: get_field_symbol_id
\* of the key for an object, get_index_symbol_id of the index for an array
SymbolOf(dfa, value, k) ==
    IF value.kind = "Object" THEN get_field_symbol_id(dfa, value.keys[k])
    ELSE get_index_symbol_id(dfa, k - 1)

\* the state the matcher enters along the k-th child, Dead when it skips it
NextState(dfa, state, value, k) ==
    LET symbol_id == SymbolOf(dfa, value, k)
    IN  IF symbol_id = None THEN Dead ELSE transition(dfa, state, symbol_id)

\* one activation of traverse_json: the node, the DFA state and the number
\* of the child the loop turns to next (0: the accepting check is still due)
Frame(node, state, next) == [node |-> node, state |-> state, next |-> next]

\* JSONPointer
Pointer(path, node) == [path |-> path, node |-> node]

\* traverse_json as a function: the records it pushes for the node at the
\* given state and path, its own first and then those of its children in
\* order (the loop from child k on is TraverseFrom)
RECURSIVE traverse_json(_, _, _, _, _)
RECURSIVE TraverseFrom(_, _, _, _, _, _)
traverse_json(d, current_state, at_path, doc, node) ==
    (IF is_accepting_state(d, current_state) THEN <<Pointer(at_path, node)>> ELSE <<>>)
        \o TraverseFrom(d, current_state, at_path, doc, node, 1)
TraverseFrom(d, current_state, at_path, doc, node, k) ==
    IF k > Len(ValueAt(doc, node).kids) THEN <<>>
    ELSE (IF NextState(d, current_state, ValueAt(doc, node), k) = Dead THEN <<>>
          ELSE traverse_json(d, NextState(d, current_state, ValueAt(doc, node), k),
                             Append(at_path, EdgeOf(ValueAt(doc, node), k)),
                             doc, Append(node, k)))
         \o TraverseFrom(d, current_state, at_path, doc, node, k + 1)

\* find as a function, for a query that build_dfa compiles
find(doc, q) == traverse_json(build_dfa(q), 0, <<>>, doc, <<>>)

\* the query of the previous call of find and its records
NoCall == [made |-> FALSE, results |-> <<>>]

\* The matcher: the query and the document of a call of find, the position
\* of the call, the compiled DFA, the activations of traverse_json, the path
\* stack, the records, the number of calls and the previous call's records.
\* The query text: the input of parse_query, its result, the text to_string
\* makes of the AST, the result of parsing that text, and the position.
\* The builder: the query of the QueryBuilder, the calls made on it so far,
\* the query build returned, and the position.
\* The matchers running over the one compiled DFA: for each its document, its
\* activations of traverse_json, its path stack, its records, its position.
VARIABLES query, json, pc, dfa, stack, path, results, calls, prev,
          input, parsed, shown, reparsed, tpc,
          builder, ops, built, bpc,
          matchers
matchvars == <<query, json, pc, dfa, stack, path, results, calls, prev>>
textvars == <<input, parsed, shown, reparsed, tpc>>
buildvars == <<builder, ops, built, bpc>>
sharevars == <<matchers>>
vars == <<matchvars, textvars, buildvars, sharevars>>

\* no result of parse_query yet
NotParsed == [ok |-> FALSE, q |-> QSequence(<<>>), err |-> "not parsed"]

NoDfa == [num_states |-> 0, start_state |-> 0, is_accepting |-> <<>>,
          transitions |-> <<>>, alphabet |-> <<>>, key_to_key_id |-> {},
          range_to_range_id |-> <<>>, dfa_states |-> <<>>]

Top == stack[Len(stack)]
TopValue == ValueAt(json, Top.node)

\* Variant of find that appends to the records of the previous call; the
\* repeated-call property must tell it from Find.
Find_keeping_results ==
    /\ pc = "call"
    /\ \/ /\ build_dfa_panics(query) \/ index_overflows(query)
          /\ pc' = "panicked"
          /\ UNCHANGED <<dfa, stack, path, results>>
       \/ /\ ~build_dfa_panics(query)
          /\ dfa' = build_dfa(query)
          /\ stack' = <<Frame(<<>>, 0, 0)>>
          /\ path' = <<>>
          /\ results' = results
          /\ pc' = "traverse"
    /\ calls' = calls + 1
    /\ UNCHANGED <<query, json, prev>>
    /\ UNCHANGED textvars
    /\ UNCHANGED buildvars
    /\ UNCHANGED sharevars

\* Variant of the entry of traverse_json that records a node after its
\* sub-tree's records are in place at the front (results.insert(0, ..)); the
\* emission-order property must tell it from Visit.
Visit_prepending ==
    /\ pc = "traverse" /\ Top.next = 0
    /\ results' = IF is_accepting_state(dfa, Top.state)
                  THEN <<Pointer(path, Top.node)>> \o results
                  ELSE results
    /\ stack' = [stack EXCEPT ![Len(stack)].next = 1]
    /\ UNCHANGED <<query, json, pc, dfa, path, calls, prev>>
    /\ UNCHANGED textvars
    /\ UNCHANGED buildvars
    /\ UNCHANGED sharevars

\* Variant of the entry of traverse_json that records the node once for
\* every accepting NFA state of the current DFA state, as a walk over the
\* alternatives one by one would; the no-duplicate property must tell it
\* from Visit.
Visit_recording_each_alternative ==
    /\ pc = "traverse" /\ Top.next = 0
    /\ results' = results \o
                    [i \in 1..Cardinality(dfa.dfa_states[Top.state + 1]
                                             \cap NFA_from_query(query).is_accepting)
                       |-> Pointer(path, Top.node)]
    /\ stack' = [stack EXCEPT ![Len(stack)].next = 1]
    /\ UNCHANGED <<query, json, pc, dfa, path, calls, prev>>
    /\ UNCHANGED textvars
    /\ UNCHANGED buildvars
    /\ UNCHANGED sharevars

\* find: compile the query, then start the walk at the root with an empty
\* path and an empty result list; or panic while compiling
Find ==
    /\ pc = "call"
    /\ \/ /\ build_dfa_panics(query) \/ index_overflows(query)
          /\ pc' = "panicked"
          /\ UNCHANGED <<dfa, stack, path, results>>
       \/ /\ ~build_dfa_panics(query)
          /\ dfa' = build_dfa(query)
          /\ stack' = <<Frame(<<>>, 0, 0)>>
          /\ path' = <<>>
          /\ results' = <<>>
          /\ pc' = "traverse"
    /\ calls' = calls + 1
    /\ UNCHANGED <<query, json, prev>>
    /\ UNCHANGED textvars
    /\ UNCHANGED buildvars
    /\ UNCHANGED sharevars

\* traverse_json, entry: an accepting state records the node
Visit ==
    /\ pc = "traverse" /\ Top.next = 0
    /\ results' = IF is_accepting_state(dfa, Top.state)
                  THEN Append(results, Pointer(path, Top.node))
                  ELSE results
    /\ stack' = [stack EXCEPT ![Len(stack)].next = 1]
    /\ UNCHANGED <<query, json, pc, dfa, path, calls, prev>>
    /\ UNCHANGED textvars
    /\ UNCHANGED buildvars
    /\ UNCHANGED sharevars

\* traverse_json, loop body with a transition: push the edge and recurse
Descend ==
    /\ pc = "traverse" /\ Top.next \in 1..Len(TopValue.kids)
    /\ NextState(dfa, Top.state, TopValue, Top.next) # Dead
    /\ path' = Append(path, EdgeOf(TopValue, Top.next))
    /\ stack' = Append([stack EXCEPT ![Len(stack)].next = Top.next + 1],
                       Frame(Append(Top.node, Top.next),
                             NextState(dfa, Top.state, TopValue, Top.next), 0))
    /\ UNCHANGED <<query, json, pc, dfa, results, calls, prev>>
    /\ UNCHANGED textvars
    /\ UNCHANGED buildvars
    /\ UNCHANGED sharevars

\* Variant of the loop body that interns the key of a skipped member in
\* key_to_key_id (a lookup through entry().or_insert); the no-mutation
\* property must tell it from Skip.
Skip_interning_key ==
    /\ pc = "traverse" /\ Top.next \in 1..Len(TopValue.kids)
    /\ NextState(dfa, Top.state, TopValue, Top.next) = Dead
    /\ stack' = [stack EXCEPT ![Len(stack)].next = Top.next + 1]
    /\ dfa' = IF TopValue.kind = "Object"
              THEN [dfa EXCEPT !.key_to_key_id = @ \cup {<<TopValue.keys[Top.next], 0>>}]
              ELSE dfa
    /\ UNCHANGED <<query, json, pc, path, results, calls, prev>>
    /\ UNCHANGED textvars
    /\ UNCHANGED buildvars
    /\ UNCHANGED sharevars

\* Variant of the loop body that leaves the loop at the first child without
\* a symbol or without a transition (a break in place of the fall-through);
\* the locality of a lookup miss must tell it from Skip.
Skip_leaving_loop ==
    /\ pc = "traverse" /\ Top.next \in 1..Len(TopValue.kids)
    /\ NextState(dfa, Top.state, TopValue, Top.next) = Dead
    /\ stack' = [stack EXCEPT ![Len(stack)].next = Len(TopValue.kids) + 1]
    /\ UNCHANGED <<query, json, pc, dfa, path, results, calls, prev>>
    /\ UNCHANGED textvars
    /\ UNCHANGED buildvars
    /\ UNCHANGED sharevars

\* traverse_json, loop body without a symbol or without a transition
Skip ==
    /\ pc = "traverse" /\ Top.next \in 1..Len(TopValue.kids)
    /\ NextState(dfa, Top.state, TopValue, Top.next) = Dead
    /\ stack' = [stack EXCEPT ![Len(stack)].next = Top.next + 1]
    /\ UNCHANGED <<query, json, pc, dfa, path, results, calls, prev>>
    /\ UNCHANGED textvars
    /\ UNCHANGED buildvars
    /\ UNCHANGED sharevars

\* Variant of the return in which find fails when the walk recorded nothing
\* (the empty match as an error); the totality property must tell it from
\* Return.
Return_failing_when_empty ==
    /\ pc = "traverse" /\ Top.next > Len(TopValue.kids)
    /\ stack' = SubSeq(stack, 1, Len(stack) - 1)
    /\ IF Len(stack) > 1
       THEN /\ path' = SubSeq(path, 1, Len(path) - 1)
            /\ pc' = pc
       ELSE /\ path' = path
            /\ pc' = IF results = <<>> THEN "failed" ELSE "done"
    /\ UNCHANGED <<query, json, dfa, results, calls, prev>>
    /\ UNCHANGED textvars
    /\ UNCHANGED buildvars
    /\ UNCHANGED sharevars

\* Variant of the return in which the caller leaves the edge it pushed on
\* the path (no path.pop() after the recursive call); the discipline of the
\* path stack must tell it from Return.
Return_keeping_edge ==
    /\ pc = "traverse" /\ Top.next > Len(TopValue.kids)
    /\ stack' = SubSeq(stack, 1, Len(stack) - 1)
    /\ path' = path
    /\ pc' = IF Len(stack) > 1 THEN pc ELSE "done"
    /\ UNCHANGED <<query, json, dfa, results, calls, prev>>
    /\ UNCHANGED textvars
    /\ UNCHANGED buildvars
    /\ UNCHANGED sharevars

\* traverse_json returns; the caller pops the edge it pushed, and when the
\* root activation returns find returns the records
Return ==
    /\ pc = "traverse" /\ Top.next > Len(TopValue.kids)
    /\ stack' = SubSeq(stack, 1, Len(stack) - 1)
    /\ IF Len(stack) > 1
       THEN /\ path' = SubSeq(path, 1, Len(path) - 1)
            /\ pc' = pc
       ELSE /\ path' = path
            /\ pc' = "done"
    /\ UNCHANGED <<query, json, dfa, results, calls, prev>>
    /\ UNCHANGED textvars
    /\ UNCHANGED buildvars
    /\ UNCHANGED sharevars

\* Bound on the calls of find on one query and one document
MaxCalls == 2

\* the caller keeps the records and calls find again
Again ==
    /\ pc = "done" /\ calls < MaxCalls
    /\ prev' = [made |-> TRUE, results |-> results]
    /\ pc' = "call"
    /\ UNCHANGED <<query, json, dfa, stack, path, results, calls>>
    /\ UNCHANGED textvars
    /\ UNCHANGED buildvars
    /\ UNCHANGED sharevars

(***************************************************************************)
(* Inputs of the matcher: queries as the builder or the parser hands them  *)
(* to find, and documents.                                                 *)
(***************************************************************************)
Fa == QField(<<"a">>)
Fb == QField(<<"b">>)
Fc == QField(<<"c">>)
AnyPath == QKleeneStar(QDisjunction(<<QSequence(<<QFieldWildcard>>), QSequence(<<QArrayWildcard>>)>>))

Queries ==
    { QSequence(<<>>),
      QSequence(<<Fa>>),
      QSequence(<<Fa, Fb>>),
      QSequence(<<Fa, Fb, Fc>>),
      QSequence(<<QOptional(Fc)>>),
      QSequence(<<QKleeneStar(Fc)>>),
      QSequence(<<QKleeneStar(Fc), QOptional(Fc), QOptional(Fc)>>),
      QSequence(<<QKleeneStar(Fa), Fb>>),
      QSequence(<<QOptional(QSequence(<<Fa, Fb>>)), Fc>>),
      QSequence(<<QKleeneStar(QSequence(<<Fa, Fb>>)), Fc>>),
      QSequence(<<QOptional(QSequence(<<Fa, Fb>>))>>),
      QDisjunction(<<QSequence(<<Fa>>), QSequence(<<Fb>>)>>),
      QDisjunction(<<QSequence(<<Fa, Fb>>), QSequence(<<Fa, Fc>>)>>),
      QSequence(<<Fa, QDisjunction(<<QSequence(<<Fb>>), QSequence(<<Fc, Fb>>)>>)>>),
      QSequence(<<QDisjunction(<<QSequence(<<Fa>>), QSequence(<<Fb>>)>>), Fc>>),
      QSequence(<<QFieldWildcard>>),
      QSequence(<<QFieldWildcard, Fc>>),
      QSequence(<<QFieldWildcard, QFieldWildcard>>),
      QSequence(<<QKleeneStar(QFieldWildcard), Fc>>),
      QSequence(<<QKleeneStar(QFieldWildcard), QArrayWildcard>>),
      QSequence(<<QKleeneStar(QFieldWildcard), QKleeneStar(QArrayWildcard), QArrayWildcard>>),
      QSequence(<<AnyPath>>),
      QSequence(<<AnyPath, Fc>>),
      QSequence(<<AnyPath, QArrayWildcard>>),
      QSequence(<<QArrayWildcard>>),
      QSequence(<<QKleeneStar(QArrayWildcard)>>),
      QSequence(<<QIndex(1)>>),
      QSequence(<<Fa, QIndex(1)>>),
      QSequence(<<Fa, QRange(1, 3)>>),
      QSequence(<<Fa, QRange(None, 2)>>),
      QSequence(<<Fa, QRange(None, None)>>),
      QSequence(<<Fa, QRange(0, None)>>),
      QSequence(<<Fa, QRangeFrom(1)>>),
      QSequence(<<Fa, QRangeFrom(0)>>),
      QSequence(<<Fa, QArrayWildcard>>),
      QSequence(<<Fa, QRange(1, 1)>>),
      QSequence(<<Fa, QRange(2, 1)>>),
      QSequence(<<QRange(2, 1), QIndex(0)>>),
      QDisjunction(<<QSequence(<<Fa, QRange(1, 1)>>), QSequence(<<Fa, QRange(0, 2)>>)>>),
      QDisjunction(<<QSequence(<<Fa, QRange(None, 2)>>), QSequence(<<Fa, QRangeFrom(1)>>)>>),
      QDisjunction(<<QSequence(<<QIndex(0)>>), QSequence(<<QRange(0, 2)>>), QSequence(<<QArrayWildcard>>)>>),
      QSequence(<<QArrayWildcard, QOptional(QIndex(0))>>),
      QSequence(<<QArrayWildcard, Fa, QIndex(2)>>),
      QSequence(<<Fc, QOptional(QSequence(<<Fa, Fb>>))>>),
      QSequence(<<Fc, QSequence(<<QOptional(QSequence(<<Fa, Fb>>)), Fc>>)>>),
      QSequence(<<QKleeneStar(QSequence(<<QOptional(QSequence(<<Fa, Fb>>)), Fc>>))>>),
      QSequence(<<Fa, QOptional(Fb), Fc, Fb>>),
      QDisjunction(<<QSequence(<<Fa, Fb>>), QSequence(<<QOptional(Fb)>>), QSequence(<<QKleeneStar(Fc)>>)>>),
      QDisjunction(<<QSequence(<<QIndex(1)>>), QSequence(<<QRange(3, 5)>>)>>),
      QSequence(<<QIndex(UsizeMax)>>),
      QSequence(<<QOptional(QSequence(<<>>))>>),
      QSequence(<<QSequence(<<>>)>>),
      QDisjunction(<<>>),
      QSequence(<<Fa, QRegex(<<"a">>)>>) }

Jsons ==
    { JObject(<<<<"a">>, <<"b">>, <<"c">>>>,
              <<JObject(<<<<"b">>>>, <<JObject(<<<<"c">>>>, <<JLeaf(1)>>)>>),
                JObject(<<<<"c">>>>, <<JLeaf(2)>>),
                JLeaf(3)>>),
      JObject(<<<<"c">>>>, <<JObject(<<<<"c">>>>, <<JObject(<<<<"c">>>>, <<JLeaf(1)>>)>>)>>),
      JObject(<<<<"a">>, <<"d">>>>, <<JArray(<<JLeaf(1), JLeaf(2), JLeaf(3)>>), JLeaf(4)>>),
      JObject(<<<<"a">>>>, <<JObject(<<<<"b">>, <<"c">>>>,
                                     <<JLeaf(5), JObject(<<<<"b">>>>, <<JLeaf(2)>>)>>)>>),
      JObject(<<<<"d">>, <<"a">>>>, <<JObject(<<<<"c">>>>, <<JLeaf(1)>>), JObject(<<<<"c">>>>, <<JLeaf(2)>>)>>),
      JArray(<<JArray(<<JLeaf(1)>>), JArray(<<JLeaf(2), JLeaf(3)>>)>>),
      JArray(<<JObject(<<<<"a">>>>, <<JObject(<<<<"c">>>>, <<JLeaf(1)>>)>>)>>),
      JArray(<<JLeaf(1), JObject(<<<<"a">>>>, <<JArray(<<JLeaf(1), JLeaf(2), JLeaf(3)>>)>>), JLeaf(3)>>),
      JObject(<<<<"c">>, <<"d">>, <<"b">>>>,
              <<JObject(<<<<"c">>>>, <<JLeaf(1)>>),
                JArray(<<JObject(<<<<"c">>>>, <<JLeaf(2)>>)>>),
                JObject(<<<<"c">>>>, <<JLeaf(3)>>)>>),
      JObject(<<>>, <<>>),
      JArray(<<>>),
      JLeaf(7) }

Init ==
    /\ query \in Queries
    /\ json \in Jsons
    /\ pc = "call"
    /\ dfa = NoDfa
    /\ stack = <<>>
    /\ path = <<>>
    /\ results = <<>>
    /\ calls = 0
    /\ prev = NoCall
    /\ input = <<>>
    /\ parsed = NotParsed
    /\ shown = <<>>
    /\ reparsed = NotParsed
    /\ tpc = "idle"
    /\ builder = QSequence(<<>>)
    /\ ops = <<>>
    /\ built = QSequence(<<>>)
    /\ bpc = "idle"
    /\ matchers = <<>>

Next == Find \/ Visit \/ Descend \/ Skip \/ Return \/ Again

Spec == Init /\ [][Next]_vars

\* the steps of traverse_json
Matching == Visit \/ Descend \/ Skip \/ Return

\* find runs on one thread of control: inside traverse_json the next step
\* is always taken
SpecTotal == Init /\ [][Next]_vars /\ WF_vars(Matching)

(***************************************************************************)
(* Query text (parser.rs, QueryDSLParser).  The grammar recognises a text   *)
(* and yields a tree of pairs; a pair has the rule that matched, the text   *)
(* it spans (as_str) and the pairs of the rules inside it (into_inner).     *)
(*   query       := disjunction? EOI                                       *)
(*   disjunction := sequence ("|" sequence)*                               *)
(*   sequence    := step ("." step)*                                       *)
(*   step        := head accessor* modifier?                               *)
(*   head        := field | index | range | array_wildcard                 *)
(*                  | field_wildcard | regex | group                       *)
(*   accessor    := index | range | array_wildcard   (after a field head)  *)
(* Blanks may stand around "|", "." and inside the parentheses of a group. *)
(***************************************************************************)
Pair(rule, str, inner) == [rule |-> rule, str |-> str, inner |-> inner]

\* the element of a one-element set; {e(x) : x \in {v}} computes v once and
\* names it x in e
Only(S) == CHOOSE x \in S : TRUE

\* the outcome of matching a rule at a position: the position after the
\* match and the pairs it produced
Matched(pos, pairs) == [ok |-> TRUE, pos |-> pos, pairs |-> pairs]
NoMatch == [ok |-> FALSE, pos |-> 0, pairs |-> <<>>]

\* the character at position p (1-based), "EOI" past the end
CharAt(t, p) == IF p \in 1..Len(t) THEN t[p] ELSE "EOI"

Digits == {"0", "1", "2", "3", "4", "5", "6", "7", "8", "9"}

\* characters an unquoted field may not hold
ReservedChars == {".", "|", "*", "?", "[", "]", "(", ")", "/", " ", "\"", "\\"}

RECURSIVE SkipBlanks(_, _)
SkipBlanks(t, p) == IF CharAt(t, p) = " " THEN SkipBlanks(t, p + 1) ELSE p

RECURSIVE DigitsEnd(_, _)
DigitsEnd(t, p) == IF CharAt(t, p) \in Digits THEN DigitsEnd(t, p + 1) ELSE p

\* number := digit+
MatchNumber(t, p) ==
    Only({IF e > p THEN Matched(e, <<Pair("number", SubSeq(t, p, e - 1), <<>>)>>) ELSE NoMatch
          : e \in {DigitsEnd(t, p)}})

\* index := "[" number "]"
MatchIndex(t, p) ==
    Only({IF CharAt(t, p) = "[" /\ n.ok /\ CharAt(t, n.pos) = "]"
          THEN Matched(n.pos + 1, <<Pair("index", SubSeq(t, p, n.pos), n.pairs)>>)
          ELSE NoMatch
          : n \in {MatchNumber(t, p + 1)}})

\* number?: where no number stands, a match of nothing
OptionalNumber(t, p) ==
    Only({IF n.ok THEN n ELSE Matched(p, <<>>) : n \in {MatchNumber(t, p)}})

\* range := "[" number? colon number? "]"
MatchRange(t, p) ==
    Only({Only({IF /\ CharAt(t, p) = "["
                   /\ CharAt(t, IF n1.ok THEN n1.pos ELSE p + 1) = ":"
                   /\ CharAt(t, n2.pos) = "]"
                THEN Matched(n2.pos + 1, <<Pair("range", SubSeq(t, p, n2.pos),
                                               n1.pairs \o <<Pair("colon", <<":">>, <<>>)>> \o n2.pairs)>>)
                ELSE NoMatch
                : n2 \in {OptionalNumber(t, (IF n1.ok THEN n1.pos ELSE p + 1) + 1)}})
          : n1 \in {MatchNumber(t, p + 1)}})

\* array_wildcard := "[" "*" "]"
MatchArrayWildcard(t, p) ==
    IF CharAt(t, p) = "[" /\ CharAt(t, p + 1) = "*" /\ CharAt(t, p + 2) = "]"
    THEN Matched(p + 3, <<Pair("array_wildcard", SubSeq(t, p, p + 2), <<>>)>>)
    ELSE NoMatch

\* field_wildcard := "*"
MatchFieldWildcard(t, p) ==
    IF CharAt(t, p) = "*" THEN Matched(p + 1, <<Pair("field_wildcard", <<"*">>, <<>>)>>)
    ELSE NoMatch

RECURSIVE UnquotedEnd(_, _)
UnquotedEnd(t, p) ==
    IF CharAt(t, p) \notin ReservedChars \cup {"EOI"} THEN UnquotedEnd(t, p + 1) ELSE p

\* the position of the closing quote of a quoted field whose body starts at
\* p, 0 when the text ends first or a backslash escapes another character
RECURSIVE QuotedEnd(_, _)
QuotedEnd(t, p) ==
    CASE CharAt(t, p) = "EOI" -> 0
      [] CharAt(t, p) = "\"" -> p
      [] CharAt(t, p) = "\\" ->
            IF CharAt(t, p + 1) \in {"\"", "\\"} THEN QuotedEnd(t, p + 2) ELSE 0
      [] OTHER -> QuotedEnd(t, p + 1)

\* field := unquoted_field | quoted_field; the pair spans the quotes too
MatchField(t, p) ==
    Only({IF u > p THEN Matched(u, <<Pair("field", SubSeq(t, p, u - 1), <<>>)>>)
          ELSE Only({IF q > 0 THEN Matched(q + 1, <<Pair("field", SubSeq(t, p, q), <<>>)>>)
                     ELSE NoMatch
                     : q \in {IF CharAt(t, p) = "\"" THEN QuotedEnd(t, p + 1) ELSE 0}})
          : u \in {UnquotedEnd(t, p)}})

\* the position of the closing slash of a regex whose body starts at p, 0
\* when the text ends first; "\/" is a slash of the body
RECURSIVE RegexEnd(_, _)
RegexEnd(t, p) ==
    CASE CharAt(t, p) = "EOI" -> 0
      [] CharAt(t, p) = "/" -> p
      [] CharAt(t, p) = "\\" /\ CharAt(t, p + 1) = "/" -> RegexEnd(t, p + 2)
      [] OTHER -> RegexEnd(t, p + 1)

\* regex := "/" body "/"
MatchRegex(t, p) ==
    Only({IF e > 0 THEN Matched(e + 1, <<Pair("regex", SubSeq(t, p, e), <<>>)>>) ELSE NoMatch
          : e \in {IF CharAt(t, p) = "/" THEN RegexEnd(t, p + 1) ELSE 0}})

\* modifier := "*" | "?"
MatchModifier(t, p) ==
    IF CharAt(t, p) \in {"*", "?"} THEN Matched(p + 1, <<Pair("modifier", <<CharAt(t, p)>>, <<>>)>>)
    ELSE NoMatch

\* ordered choice: the first of the outcomes that is a match
FirstMatch(outcomes) ==
    Only({IF \E i \in 1..Len(rs) : rs[i].ok
          THEN rs[CHOOSE i \in 1..Len(rs) : rs[i].ok /\ \A j \in 1..(i - 1) : ~rs[j].ok]
          ELSE NoMatch
          : rs \in {outcomes}})

\* accessor*: the longest run of index, range and array_wildcard
RECURSIVE MatchAccessors(_, _)
MatchAccessors(t, p) ==
    Only({IF ~a.ok THEN Matched(p, <<>>)
          ELSE Only({Matched(rest.pos, a.pairs \o rest.pairs) : rest \in {MatchAccessors(t, a.pos)}})
          : a \in {FirstMatch(<<MatchIndex(t, p), MatchRange(t, p), MatchArrayWildcard(t, p)>>)}})

RECURSIVE MatchDisjunction(_, _)
RECURSIVE MatchDisjunctionRest(_, _)
RECURSIVE MatchSequence(_, _)
RECURSIVE MatchSequenceRest(_, _)
RECURSIVE MatchStep(_, _)
RECURSIVE MatchHead(_, _)
RECURSIVE MatchGroup(_, _)

\* group := "(" disjunction ")"
MatchGroup(t, p) ==
    IF CharAt(t, p) # "(" THEN NoMatch
    ELSE Only({IF d.ok /\ CharAt(t, SkipBlanks(t, d.pos)) = ")"
               THEN Matched(SkipBlanks(t, d.pos) + 1,
                            <<Pair("group", SubSeq(t, p, SkipBlanks(t, d.pos)), d.pairs)>>)
               ELSE NoMatch
               : d \in {MatchDisjunction(t, SkipBlanks(t, p + 1))}})

\* head: the first alternative that matches
MatchHead(t, p) ==
    Only({IF h.ok THEN h ELSE MatchGroup(t, p)
          : h \in {FirstMatch(<<MatchField(t, p), MatchIndex(t, p), MatchRange(t, p),
                                MatchArrayWildcard(t, p), MatchFieldWildcard(t, p),
                                MatchRegex(t, p)>>)}})

\* step := head accessor* modifier?
MatchStep(t, p) ==
    Only({IF ~h.ok THEN NoMatch
          ELSE Only({Only({Matched(m.pos, <<Pair("step", SubSeq(t, p, m.pos - 1),
                                                 h.pairs \o a.pairs \o m.pairs)>>)
                           : m \in {IF MatchModifier(t, a.pos).ok THEN MatchModifier(t, a.pos)
                                    ELSE Matched(a.pos, <<>>)}})
                     : a \in {IF h.pairs[1].rule = "field" THEN MatchAccessors(t, h.pos)
                              ELSE Matched(h.pos, <<>>)}})
          : h \in {MatchHead(t, p)}})

\* ("." step)*
MatchSequenceRest(t, p) ==
    Only({IF ~st.ok THEN Matched(p, <<>>)
          ELSE Only({Matched(rest.pos, st.pairs \o rest.pairs)
                     : rest \in {MatchSequenceRest(t, st.pos)}})
          : st \in {IF CharAt(t, SkipBlanks(t, p)) = "."
                    THEN MatchStep(t, SkipBlanks(t, SkipBlanks(t, p) + 1))
                    ELSE NoMatch}})

\* sequence := step ("." step)*
MatchSequence(t, p) ==
    Only({IF ~st.ok THEN NoMatch
          ELSE Only({Matched(rest.pos, <<Pair("sequence", SubSeq(t, p, rest.pos - 1),
                                              st.pairs \o rest.pairs)>>)
                     : rest \in {MatchSequenceRest(t, st.pos)}})
          : st \in {MatchStep(t, p)}})

\* ("|" sequence)*
MatchDisjunctionRest(t, p) ==
    Only({IF ~sq.ok THEN Matched(p, <<>>)
          ELSE Only({Matched(rest.pos, sq.pairs \o rest.pairs)
                     : rest \in {MatchDisjunctionRest(t, sq.pos)}})
          : sq \in {IF CharAt(t, SkipBlanks(t, p)) = "|"
                    THEN MatchSequence(t, SkipBlanks(t, SkipBlanks(t, p) + 1))
                    ELSE NoMatch}})

\* disjunction := sequence ("|" sequence)*
MatchDisjunction(t, p) ==
    Only({IF ~sq.ok THEN NoMatch
          ELSE Only({Matched(rest.pos, <<Pair("disjunction", SubSeq(t, p, rest.pos - 1),
                                              sq.pairs \o rest.pairs)>>)
                     : rest \in {MatchDisjunctionRest(t, sq.pos)}})
          : sq \in {MatchSequence(t, p)}})

\* Variant of the query rule without EOI: the longest disjunction at the
\* start of the text is the query; the parse-error property must tell it
\* from MatchQuery.
MatchQuery_accepting_prefix(t) ==
    Only({Matched(Len(t) + 1,
                  <<Pair("query", t, (IF d.ok THEN d.pairs ELSE <<>>)
                                     \o <<Pair("EOI", <<>>, <<>>)>>)>>)
          : d \in {MatchDisjunction(t, SkipBlanks(t, 1))}})

\* query := disjunction? EOI, the whole text
MatchQuery(t) ==
    Only({IF (IF d.ok THEN SkipBlanks(t, d.pos) ELSE SkipBlanks(t, 1)) = Len(t) + 1
          THEN Matched(Len(t) + 1,
                       <<Pair("query", t, (IF d.ok THEN d.pairs ELSE <<>>)
                                          \o <<Pair("EOI", <<>>, <<>>)>>)>>)
          ELSE NoMatch
          : d \in {MatchDisjunction(t, SkipBlanks(t, 1))}})

(***************************************************************************)
(* From pairs to the AST (parser.rs).                                      *)
(***************************************************************************)
\* Result<Query, QueryParseError>
Ok(q) == [ok |-> TRUE, q |-> q, err |-> "none"]
Err(e) == [ok |-> FALSE, q |-> QSequence(<<>>), err |-> e]

DigitValue(c) ==
    CASE c = "0" -> 0 [] c = "1" -> 1 [] c = "2" -> 2 [] c = "3" -> 3 [] c = "4" -> 4
      [] c = "5" -> 5 [] c = "6" -> 6 [] c = "7" -> 7 [] c = "8" -> 8 [] OTHER -> 9

\* str::parse::<usize> of a run of digits: None when the value overflows
RECURSIVE ParseUsizeFrom(_, _, _)
ParseUsizeFrom(str, i, acc) ==
    IF i > Len(str) THEN acc
    ELSE IF acc * 10 + DigitValue(str[i]) > UsizeMax THEN None
    ELSE ParseUsizeFrom(str, i + 1, acc * 10 + DigitValue(str[i]))

\* None as well for a text that is no run of digits
ParseUsize(str) ==
    IF str = <<>> \/ \E i \in 1..Len(str) : str[i] \notin Digits THEN None
    ELSE ParseUsizeFrom(str, 1, 0)

parse_field(pair) ==
    IF pair.rule # "field" THEN Err("UnexpectedToken") ELSE Ok(QField(pair.str))

parse_index(pair) ==
    IF pair.rule # "index" THEN Err("UnexpectedToken")
    ELSE IF pair.inner = <<>> THEN Err("UnexpectedEndOfInput")
    ELSE Only({IF idx = None THEN Err("UnexpectedToken") ELSE Ok(QIndex(idx))
               : idx \in {ParseUsize(pair.inner[1].str)}})

\* inner.next() is the start, the next pair is skipped as the colon, the one
\* after it is the end
parse_range(pair) ==
    IF pair.rule # "range" THEN Err("UnexpectedToken")
    ELSE Only({Only({IF Len(pair.inner) >= 1 /\ start = None THEN Err("UnexpectedToken")
                     ELSE IF Len(pair.inner) >= 3 /\ end = None THEN Err("UnexpectedToken")
                     ELSE CASE start = None /\ end = None -> Ok(QArrayWildcard)
                            [] start = None /\ end # None -> Ok(QRange(0, end))
                            [] start # None /\ end = None -> Ok(QRangeFrom(start))
                            [] OTHER -> Ok(QRange(start, end))
                     : end \in {IF Len(pair.inner) >= 3 THEN ParseUsize(pair.inner[3].str)
                                ELSE None}})
               : start \in {IF Len(pair.inner) >= 1 THEN ParseUsize(pair.inner[1].str)
                            ELSE None}})

\* pattern.replace("\\/", "/")
RECURSIVE UnescapeSlashes(_)
UnescapeSlashes(str) ==
    IF str = <<>> THEN <<>>
    ELSE IF Len(str) >= 2 /\ str[1] = "\\" /\ str[2] = "/"
         THEN <<"/">> \o UnescapeSlashes(SubSeq(str, 3, Len(str)))
         ELSE <<str[1]>> \o UnescapeSlashes(Tail(str))

parse_regex(pair) ==
    IF pair.rule # "regex" THEN Err("UnexpectedToken")
    ELSE IF Len(pair.str) < 2 \/ pair.str[1] # "/" \/ pair.str[Len(pair.str)] # "/"
    THEN Err("UnexpectedToken")
    ELSE Ok(QRegex(UnescapeSlashes(SubSeq(pair.str, 2, Len(pair.str) - 1))))

\* collect::<Result<Vec<_>, _>>: the first error of a list of results, or
\* the list of the queries
FirstErr(results_of) ==
    Only({IF \E i \in 1..Len(rs) : ~rs[i].ok
          THEN rs[CHOOSE i \in 1..Len(rs) : ~rs[i].ok /\ \A j \in 1..(i - 1) : rs[j].ok]
          ELSE Ok(QSequence([i \in 1..Len(rs) |-> rs[i].q]))
          : rs \in {results_of}})

RECURSIVE parse_disjunction(_)
RECURSIVE parse_sequence(_)
RECURSIVE parse_step(_)
RECURSIVE parse_group(_)

\* Variant of parse_disjunction that makes a Disjunction of one alternative
\* too (no flattening); the shape rules must tell it from parse_disjunction.
RECURSIVE parse_disjunction_always_wrapping(_)
parse_disjunction_always_wrapping(pair) ==
    IF pair.rule # "disjunction" THEN Err("UnexpectedToken")
    ELSE Only({IF ~sequences.ok THEN sequences
               ELSE Ok(QDisjunction(sequences.q.qs))
               : sequences \in {FirstErr([i \in 1..Len(pair.inner) |->
                                            parse_sequence(pair.inner[i])])}})

parse_disjunction(pair) ==
    IF pair.rule # "disjunction" THEN Err("UnexpectedToken")
    ELSE Only({IF ~sequences.ok THEN sequences
               ELSE IF Len(sequences.q.qs) = 1 THEN Ok(sequences.q.qs[1])
               ELSE Ok(QDisjunction(sequences.q.qs))
               : sequences \in {FirstErr([i \in 1..Len(pair.inner) |->
                                            parse_sequence(pair.inner[i])])}})

parse_sequence(pair) ==
    IF pair.rule # "sequence" THEN Err("UnexpectedToken")
    ELSE FirstErr([i \in 1..Len(pair.inner) |-> parse_step(pair.inner[i])])

parse_group(pair) ==
    IF pair.rule # "group" THEN Err("UnexpectedToken")
    ELSE IF pair.inner = <<>> THEN Err("UnexpectedEndOfInput")
    ELSE parse_disjunction(pair.inner[1])

\* the query of the first pair of a step, or of an accessor after it
StepPart(pair) ==
    CASE pair.rule = "field" -> parse_field(pair)
      [] pair.rule = "index" -> parse_index(pair)
      [] pair.rule = "range" -> parse_range(pair)
      [] pair.rule = "array_wildcard" -> Ok(QArrayWildcard)
      [] pair.rule = "field_wildcard" -> Ok(QFieldWildcard)
      [] pair.rule = "regex" -> parse_regex(pair)
      [] pair.rule = "group" -> parse_group(pair)
      [] OTHER -> Err("UnexpectedToken")

\* the number of pairs of inner, from the second on, that the accessor loop
\* takes before it stops at another rule
RECURSIVE AccessorRun(_, _)
AccessorRun(inner, i) ==
    IF i <= Len(inner) /\ inner[i].rule \in {"index", "range", "array_wildcard"}
    THEN 1 + AccessorRun(inner, i + 1)
    ELSE 0

parse_step(pair) ==
    IF pair.rule # "step" THEN Err("UnexpectedToken")
    ELSE IF pair.inner = <<>> THEN Err("UnexpectedEndOfInput")
    ELSE Only({Only({IF ~queries.ok THEN queries
                     ELSE IF Len(pair.inner) = n
                     THEN (IF n = 1 THEN Ok(queries.q.qs[1]) ELSE queries)
                     ELSE IF pair.inner[n + 1].rule # "modifier" THEN Err("UnexpectedToken")
                     ELSE IF pair.inner[n + 1].str \notin {<<"*">>, <<"?">>}
                     THEN Err("UnexpectedToken")
                     ELSE Only({IF n = 1 THEN Ok(modified_query)
                                ELSE Ok(QSequence([queries.q.qs EXCEPT ![n] = modified_query]))
                                : modified_query \in
                                    {IF pair.inner[n + 1].str = <<"*">>
                                     THEN QKleeneStar(queries.q.qs[n])
                                     ELSE QOptional(queries.q.qs[n])}})
                     \* the first pair and the accessors after it
                     : queries \in {FirstErr([i \in 1..n |-> StepPart(pair.inner[i])])}})
               : n \in {1 + AccessorRun(pair.inner, 2)}})

\* parse_query: a text the grammar rejects is an UnexpectedToken; the text
\* without a disjunction is the empty Sequence
parse_query(text) ==
    Only({IF ~pairs.ok THEN Err("UnexpectedToken")
          ELSE IF pairs.pairs[1].inner = <<>> THEN Err("UnexpectedEndOfInput")
          ELSE IF pairs.pairs[1].inner[1].rule = "EOI" THEN Ok(QSequence(<<>>))
          ELSE parse_disjunction(pairs.pairs[1].inner[1])
          : pairs \in {MatchQuery(text)}})

(***************************************************************************)
(* The textual form of the AST (ast.rs, impl Display for Query).           *)
(***************************************************************************)
DigitChar(d) ==
    CASE d = 0 -> "0" [] d = 1 -> "1" [] d = 2 -> "2" [] d = 3 -> "3" [] d = 4 -> "4"
      [] d = 5 -> "5" [] d = 6 -> "6" [] d = 7 -> "7" [] d = 8 -> "8" [] OTHER -> "9"

\* {n} of a usize: decimal, no leading zero
RECURSIVE FmtUsize(_)
FmtUsize(n) ==
    IF n < 10 THEN <<DigitChar(n)>> ELSE FmtUsize(n \div 10) \o <<DigitChar(n % 10)>>

needs_quoting(name) ==
    \/ name = <<>>
    \/ \E i \in 1..Len(name) : name[i] \in ReservedChars

RECURSIVE escape_for_quoted_field(_)
escape_for_quoted_field(name) ==
    IF name = <<>> THEN <<>>
    ELSE (CASE Head(name) = "\"" -> <<"\\", "\"">>
            [] Head(name) = "\\" -> <<"\\", "\\">>
            [] OTHER -> <<Head(name)>>) \o escape_for_quoted_field(Tail(name))

\* the query inside an Optional or KleeneStar, the query itself otherwise
Unmodified(q) == IF q.t \in {"Optional", "KleeneStar"} THEN q.qs[1] ELSE q

\* the Sequence arm writes no '.' between these two neighbours
NoSeparator(prev_query, this_query) ==
    /\ Unmodified(prev_query).t = "Field"
    /\ Unmodified(this_query).t \in {"Index", "Range", "RangeFrom", "FieldWildcard", "ArrayWildcard"}

RECURSIVE Display(_)
RECURSIVE DisplayJoined(_, _)
RECURSIVE DisplaySequence(_, _)
Display(q) ==
    CASE q.t = "Field" ->
            IF needs_quoting(q.name) THEN <<"\"">> \o escape_for_quoted_field(q.name) \o <<"\"">>
            ELSE q.name
      [] q.t = "Index" -> <<"[">> \o FmtUsize(q.lo) \o <<"]">>
      [] q.t = "Range" ->
            <<"[">> \o (IF q.lo # None THEN FmtUsize(q.lo) ELSE <<>>) \o <<":">>
                   \o (IF q.hi # None THEN FmtUsize(q.hi) ELSE <<>>) \o <<"]">>
      [] q.t = "RangeFrom" -> <<"[">> \o FmtUsize(q.lo) \o <<":", "]">>
      [] q.t = "FieldWildcard" -> <<"*">>
      [] q.t = "ArrayWildcard" -> <<"[", "*", "]">>
      [] q.t = "Regex" -> <<"/">> \o q.name \o <<"/">>
      [] q.t \in {"Optional", "KleeneStar"} ->
            LET m == IF q.t = "Optional" THEN "?" ELSE "*"
                inner == q.qs[1]
            IN  IF inner.t \in {"Disjunction", "Sequence"} /\ Len(inner.qs) > 1
                THEN <<"(">> \o Display(inner) \o <<")", m>>
                ELSE Display(inner) \o <<m>>
      [] q.t = "Disjunction" -> DisplayJoined(q.qs, 1)
      [] OTHER -> DisplaySequence(q.qs, 1)
\* the alternatives i.. joined by " | "
DisplayJoined(qs, i) ==
    IF i > Len(qs) THEN <<>>
    ELSE (IF i > 1 THEN <<" ", "|", " ">> ELSE <<>>) \o Display(qs[i]) \o DisplayJoined(qs, i + 1)
\* the steps i.. of a Sequence
DisplaySequence(qs, i) ==
    IF i > Len(qs) THEN <<>>
    ELSE (IF i > 1 /\ ~NoSeparator(qs[i - 1], qs[i]) THEN <<".">> ELSE <<>>)
         \o (IF qs[i].t = "Disjunction" THEN <<"(">> \o Display(qs[i]) \o <<")">>
             ELSE Display(qs[i]))
         \o DisplaySequence(qs, i + 1)

(***************************************************************************)
(* A query text is parsed, the AST is written back as text, and that text  *)
(* is parsed again (parser.rs tests: parse_query(q).to_string()).          *)
(***************************************************************************)
\* parse_query on the input
ParseQuery ==
    /\ tpc = "parse"
    /\ \E r \in {parse_query(input)} :
          /\ parsed' = r
          /\ tpc' = IF r.ok THEN "parsed" ELSE "rejected"
    /\ UNCHANGED <<input, shown, reparsed>>
    /\ UNCHANGED matchvars
    /\ UNCHANGED buildvars
    /\ UNCHANGED sharevars

\* to_string of the AST
to_string ==
    /\ tpc = "parsed"
    /\ shown' = Display(parsed.q)
    /\ tpc' = "shown"
    /\ UNCHANGED <<input, parsed, reparsed>>
    /\ UNCHANGED matchvars
    /\ UNCHANGED buildvars
    /\ UNCHANGED sharevars

\* parse_query on the text to_string made
Reparse ==
    /\ tpc = "shown"
    /\ reparsed' = parse_query(shown)
    /\ tpc' = "reparsed"
    /\ UNCHANGED <<input, parsed, shown>>
    /\ UNCHANGED matchvars
    /\ UNCHANGED buildvars
    /\ UNCHANGED sharevars

\* Bound on the length of the texts taken without selection
MaxTextLen == 3

\* the characters of those texts
TextChars == {"a", ".", "*", "?", "(", ")", "|"}

\* query texts of the tests and the documentation, and texts around them
NamedTexts ==
    { <<>>,
      <<"f", "o", "o">>,
      <<"f", "o", "o", ".", "*">>,
      <<"f", "o", "o", "*">>,
      <<"(", "f", "o", "o", ")">>,
      <<"(", "(", "f", "o", "o", ")", ")">>,
      <<"f", "o", "o", ".", "b", "a", "r">>,
      <<"f", "o", "o", " ", "|", " ", "b", "a", "r">>,
      <<"a", "|", "b", "|", "c">>,
      <<"f", "o", "o", "[", "0", "]">>,
      <<"f", "o", "o", "[", "0", "]", "?">>,
      <<"f", "o", "o", "[", "0", "]", "[", "1", "]", "*">>,
      <<"f", "o", "o", ".", "[", "0", "]">>,
      <<"f", "o", "o", "[", "0", "]", "[", "1", "]">>,
      <<"f", "o", "o", "[", "1", ":", "3", "]">>,
      <<"f", "o", "o", "[", "1", ":", "]">>,
      <<"f", "o", "o", "[", ":", "2", "]">>,
      <<"f", "o", "o", "[", ":", "]">>,
      <<"f", "o", "o", "[", "*", "]">>,
      <<"[", "*", "]">>,
      <<"[", "0", "]">>,
      <<"[", "0", "]", "[", "1", "]">>,
      <<"f", "o", "o", ".", "b", "a", "r", "[", "0", "]", "?", ".", "b", "a", "z", "*">>,
      <<"c", "*", ".", "c", "?", ".", "c", "?">>,
      <<"(", "f", "o", "o", " ", "|", " ", "b", "a", "r", ")", ".", "b", "a", "z">>,
      <<"(", "*", " ", "|", " ", "[", "*", "]", ")", "*">>,
      <<"a", ".", "(", "*", " ", "|", " ", "[", "*", "]", ")", "*", ".", "b", "?">>,
      <<"(", "(", "f", "o", "o", ".", "b", "a", "r", ")", "*", " ", "|", " ", "b", "a", "r", ")">>,
      <<"(", "f", "o", "o", ".", "b", "a", "r", ".", "b", "a", "z", ")", "?">>,
      <<"(", "a", ".", "b", ")", "?", ".", "c">>,
      <<"(", "a", "?", ")", "?">>,
      <<"*", "*">>,
      <<"b", "a", "r", "[", "2", "]", "?", " ", "|", " ", "f", "o", "o", "[", "2", ":", "5", "]", ".", "*", "*", ".", "[", "*", "]">>,
      <<"\"", "a", " ", "b", "\"">>,
      <<"\"", "a", " ", "b", "\"", ".", "f", "o", "o">>,
      <<"\"", "a", "\\", "\"", "b", "\"">>,
      <<"/", "a", "/">>,
      <<"/", "a", "\\", "/", "b", "/">>,
      <<"f", "o", "o", "[", "9", "9", "]">>,
      <<"f", "o", "o", "[", "0", "0", "7", "]">>,
      <<"f", "o", "o", "[", "a", "b", "c", "]">>,
      <<"/", "u", "n", "c", "l", "o", "s", "e", "d">>,
      <<"\"">>,
      <<"a", " ", "b">>,
      <<"]", "[">>,
      <<" ", "a", " ", ".", " ", "b", " ">>,
      <<"a", ".", ".", "b">>,
      <<"a", ".">>,
      <<"|", "a">>,
      <<"a", "?", "*">>,
      <<"(", ")">>,
      <<"(", "a">>,
      <<"[", "1", ":", "0", "]">>,
      <<"f", "o", "o", "[", "1", "5", "]">>,
      <<"f", "o", "o", "[", "n", "o", "t", "a", "n", "i", "n", "d", "e", "x", "]">>,
      <<"[", "1", "a", "]">>,
      <<"f", "o", "o", "[", "1", ":", "x", "]">>,
      <<"f", "o", "o", "[", "0", "]", "[", "-", "1", "]">>,
      <<"\"", "a">>,
      <<"f", "o", "o", ".", "\"", "b">>,
      <<"f", "o", "o", ".", "/", "b">>,
      <<"f", "o", "o", ".", "?">>,
      <<"f", "o", "o", ")", ".", "b">> }

Texts == NamedTexts \cup UNION {[1..n -> TextChars] : n \in 0..MaxTextLen}

InitText ==
    /\ input \in Texts
    /\ parsed = NotParsed
    /\ shown = <<>>
    /\ reparsed = NotParsed
    /\ tpc = "parse"
    /\ query = QSequence(<<>>)
    /\ json = JLeaf(7)
    /\ pc = "idle"
    /\ dfa = NoDfa
    /\ stack = <<>>
    /\ path = <<>>
    /\ results = <<>>
    /\ calls = 0
    /\ prev = NoCall
    /\ builder = QSequence(<<>>)
    /\ ops = <<>>
    /\ built = QSequence(<<>>)
    /\ bpc = "idle"
    /\ matchers = <<>>

NextText == ParseQuery \/ to_string \/ Reparse

SpecText == InitText /\ [][NextText]_vars

(***************************************************************************)
(* The language L(q) of a query, by the meaning of each AST variant: a     *)
(* word is a sequence of path steps.                                       *)
(***************************************************************************)
RECURSIVE InLang(_, _)
InLang(q, w) ==
    CASE q.t = "Field" -> Len(w) = 1 /\ w[1] = PField(q.name)
      [] q.t = "FieldWildcard" -> Len(w) = 1 /\ w[1].p = "Field"
      [] q.t = "Index" -> Len(w) = 1 /\ w[1] = PIndex(q.lo)
      [] q.t = "Range" ->
            /\ Len(w) = 1 /\ w[1].p = "Index"
            /\ UnwrapOr(q.lo, 0) <= w[1].idx
            /\ (q.hi = None \/ w[1].idx < q.hi)
      [] q.t = "RangeFrom" -> Len(w) = 1 /\ w[1].p = "Index" /\ q.lo <= w[1].idx
      [] q.t = "ArrayWildcard" -> Len(w) = 1 /\ w[1].p = "Index"
      [] q.t = "Optional" -> w = <<>> \/ InLang(q.qs[1], w)
      [] q.t = "KleeneStar" ->
            \/ w = <<>>
            \/ \E k \in 1..Len(w) :
                  /\ InLang(q.qs[1], SubSeq(w, 1, k))
                  /\ InLang(q, SubSeq(w, k + 1, Len(w)))
      [] q.t = "Disjunction" -> \E i \in 1..Len(q.qs) : InLang(q.qs[i], w)
      [] q.t = "Sequence" ->
            IF q.qs = <<>> THEN w = <<>>
            ELSE \E k \in 0..Len(w) :
                    /\ InLang(Head(q.qs), SubSeq(w, 1, k))
                    /\ InLang(QSequence(Tail(q.qs)), SubSeq(w, k + 1, Len(w)))
      [] OTHER -> FALSE

\* the nodes of a document and the path word of a node
RECURSIVE Nodes(_)
Nodes(value) ==
    {<<>>} \cup UNION {{<<k>> \o n : n \in Nodes(value.kids[k])} : k \in 1..Len(value.kids)}

RECURSIVE PathTo(_, _)
PathTo(value, node) ==
    IF node = <<>> THEN <<>>
    ELSE <<EdgeOf(value, Head(node))>> \o PathTo(value.kids[Head(node)], Tail(node))

\* C1: soundness - the path of every emitted record spells a word of L(q)
\* (queries without Regex).
C1_Soundness ==
    ~HasRegex(query) =>
        \A i \in 1..Len(results) : InLang(query, results[i].path)

\* C2: completeness - when find has returned, every node whose path word is
\* in L(q) is in the result with that path (queries without Regex).
C2_Completeness ==
    (pc = "done" /\ ~HasRegex(query)) =>
        \A n \in Nodes(json) :
            InLang(query, PathTo(json, n)) =>
                \E i \in 1..Len(results) : results[i] = Pointer(PathTo(json, n), n)

\* C3: identity query - when find returns for the empty query Sequence([]),
\* the result is exactly one record: the empty path with the root value,
\* whatever the document.
C3_IdentityQuery ==
    (pc = "done" /\ IsEmptyQuery(query)) => results = <<Pointer(<<>>, <<>>)>>

\* find has returned for the empty query on a document that has children
C3_Witness ==
    /\ pc = "done" /\ IsEmptyQuery(query)
    /\ Len(json.kids) >= 2
    /\ results = <<Pointer(<<>>, <<>>)>>

\* depth-first pre-order of node addresses: a node comes before the nodes of
\* its sub-tree, and the sub-tree of child k before that of child k + 1
RECURSIVE PreOrderBefore(_, _)
PreOrderBefore(a, b) ==
    IF a = <<>> THEN b # <<>>
    ELSE IF b = <<>> THEN FALSE
    ELSE IF Head(a) = Head(b) THEN PreOrderBefore(Tail(a), Tail(b))
    ELSE Head(a) < Head(b)

\* C4: emission order - at every moment of the walk the records emitted so
\* far are in depth-first pre-order of the document (child k of an object is
\* its k-th member in iteration order, child k of an array is index k - 1),
\* each with the path of its node.
C4_EmissionOrder ==
    /\ \A i \in 1..Len(results) : results[i].path = PathTo(json, results[i].node)
    /\ \A i, j \in 1..Len(results) :
          i < j => PreOrderBefore(results[i].node, results[j].node)

\* find has returned a node, then a node of its sub-tree, then a node of a
\* later sibling's sub-tree
C4_Witness ==
    /\ pc = "done" /\ Len(results) >= 3
    /\ \E i \in 1..(Len(results) - 2) :
          LET a == results[i].node
              b == results[i + 1].node
              c == results[i + 2].node
          IN  /\ Len(b) > Len(a) /\ SubSeq(b, 1, Len(a)) = a
              /\ Len(c) > Len(a) /\ SubSeq(c, 1, Len(a)) = a
              /\ c[Len(a) + 1] > b[Len(a) + 1]

\* C5: backtracking cleanliness - when find has returned, the path stack and
\* the activations of traverse_json are gone, and a repeated call with the
\* same query and document returns the same list of records as the call
\* before it.
C5_BacktrackingClean ==
    pc = "done" =>
        /\ path = <<>>
        /\ stack = <<>>
        /\ prev.made => results = prev.results

\* a second call has returned a list of several records, some below the root
C5_Witness ==
    /\ pc = "done" /\ prev.made
    /\ Len(results) >= 2
    /\ \E i \in 1..Len(results) : Len(results[i].path) >= 2
    /\ results = prev.results

\* find has compiled the query and holds the DFA
Compiled == pc \in {"traverse", "done"}

\* the Index, Range, RangeFrom and ArrayWildcard nodes of a query
RECURSIVE IndexAtoms(_)
IndexAtoms(q) ==
    IF q.t \in {"Index", "Range", "RangeFrom", "ArrayWildcard"} THEN {q}
    ELSE UNION {IndexAtoms(q.qs[i]) : i \in 1..Len(q.qs)}

\* the integers a query names as an endpoint
NamedEndpoints(q) ==
    UNION {({a.lo, a.hi} \ {None}) : a \in IndexAtoms(q)}

\* the entries of range_to_range_id whose interval [start, end) holds idx
EntriesHolding(d, idx) ==
    {k \in 1..Len(d.range_to_range_id) :
        d.range_to_range_id[k].start <= idx /\ idx < d.range_to_range_id[k].end}

\* range_to_range_id is sorted by strictly increasing start and its
\* intervals are non-empty and pairwise disjoint
RangesSortedDisjoint(d) ==
    LET r == d.range_to_range_id
    IN  /\ \A k \in 1..Len(r) : r[k].start < r[k].end
        /\ \A k \in 1..(Len(r) - 1) : r[k].start < r[k + 1].start /\ r[k].end <= r[k + 1].start

FieldNames(q) == {FieldsInOrder(q)[i] : i \in 1..Len(FieldsInOrder(q))}

\* field names an object may present: those of the queries and two others
ProbeNames == {<<"a">>, <<"b">>, <<"c">>, <<"d">>, <<"z">>}

\* Other sits at index 0 and nowhere else, every key id is the index of the
\* Field symbol of its name and is not 0, and get_field_symbol_id gives 0
\* exactly for the names that are no Field of the query
OtherIsSymbolZero(d, q) ==
    /\ Len(d.alphabet) >= 1
    /\ d.alphabet[1] = LOther
    /\ \A i \in 2..Len(d.alphabet) : d.alphabet[i].l # "Other"
    /\ \A e \in d.key_to_key_id :
          e[2] \in 1..(Len(d.alphabet) - 1) /\ d.alphabet[e[2] + 1] = LField(e[1])
    /\ \A f \in ProbeNames : (get_field_symbol_id(d, f) = 0) <=> (f \notin FieldNames(q))

\* C9 (as stated): every compiled DFA, that of the empty query included, has
\* Other at alphabet index 0, no Field symbol at index 0, and maps every
\* name that is no Field of the query to 0.
C9_AsStated ==
    Compiled => OtherIsSymbolZero(dfa, query)

\* C9 (amended): every DFA compiled from a query other than the empty query
\* has Other at alphabet index 0, no Field symbol at index 0, and maps every
\* name that is no Field of the query to 0; the DFA of the empty query has an
\* empty alphabet, and get_field_symbol_id still answers 0 for every name.
C9_SymbolZeroIsOther ==
    Compiled =>
        IF IsEmptyQuery(query)
        THEN /\ dfa.alphabet = <<>>
             /\ \A f \in ProbeNames : get_field_symbol_id(dfa, f) = 0
        ELSE OtherIsSymbolZero(dfa, query)

\* the walk stands at an object member whose key is no Field of the query,
\* which has two or more Fields, and the lookup answers 0
C9_Witness ==
    /\ pc = "traverse" /\ ~IsEmptyQuery(query)
    /\ Cardinality(dfa.key_to_key_id) >= 2
    /\ TopValue.kind = "Object"
    /\ Top.next \in 1..Len(TopValue.kids)
    /\ TopValue.keys[Top.next] \notin FieldNames(query)
    /\ SymbolOf(dfa, TopValue, Top.next) = 0

\* the alphabet indices (0-based) of the symbols that take a field edge: the
\* Field symbol of that name, or Other when the name has no Field symbol
SymbolsOfField(d, f) ==
    {i - 1 : i \in {k \in 1..Len(d.alphabet) :
        \/ d.alphabet[k] = LField(f)
        \/ /\ d.alphabet[k].l = "Other"
           /\ \A m \in 1..Len(d.alphabet) : d.alphabet[m] # LField(f)}}

\* the alphabet indices (0-based) of the Range symbols that hold an index
SymbolsOfIndex(d, idx) ==
    {i - 1 : i \in {k \in 1..Len(d.alphabet) :
        d.alphabet[k].l = "Range" /\ d.alphabet[k].lo <= idx /\ idx < d.alphabet[k].hi}}

\* C10: determinism - in every compiled DFA a field name or an array index
\* is taken by at most one symbol of the alphabet, the lookup answers that
\* symbol (no symbol for an index no Range holds), and every entry of the
\* transition table is one state of the DFA or dead.
C10_Determinism ==
    Compiled =>
        /\ \A f \in ProbeNames :
              /\ Cardinality(SymbolsOfField(dfa, f)) <= 1
              /\ SymbolsOfField(dfa, f) \subseteq {get_field_symbol_id(dfa, f)}
        /\ \A idx \in 0..UsizeMax :
              /\ Cardinality(SymbolsOfIndex(dfa, idx)) <= 1
              /\ SymbolsOfIndex(dfa, idx) = {get_index_symbol_id(dfa, idx)} \ {None}
        /\ Len(dfa.transitions) = (IF dfa.alphabet = <<>> THEN 0 ELSE dfa.num_states)
        /\ \A s \in 1..Len(dfa.transitions) :
              /\ Len(dfa.transitions[s]) = Len(dfa.alphabet)
              /\ \A a \in 1..Len(dfa.alphabet) :
                    dfa.transitions[s][a] \in {Dead} \cup (0..(dfa.num_states - 1))

\* the walk has followed an array edge and a field edge in a DFA of several
\* states whose alphabet has Field and Range symbols
C10_Witness ==
    /\ pc = "traverse" /\ dfa.num_states >= 3
    /\ \E i, j \in 1..Len(dfa.alphabet) : dfa.alphabet[i].l = "Field" /\ dfa.alphabet[j].l = "Range"
    /\ \E i, j \in 1..Len(path) : path[i].p = "Field" /\ path[j].p = "Index"

\* the path steps the languages of two queries are compared on: the fields
\* either query names, one more field, and the first indices
ProbeSteps(q1, q2) ==
    {PField(f) : f \in FieldNames(q1) \cup FieldNames(q2) \cup {<<"z">>}}
        \cup {PIndex(i) : i \in 0..2}

\* Bound on the length of the path words the languages are compared on
MaxWordLen == 2

\* the words over a set of steps up to that length
ProbeWords(steps) == UNION {[1..n -> steps] : n \in 0..MaxWordLen}

\* two queries denote the same language, as far as the probe words tell
SameLanguage(q1, q2) ==
    \A w \in ProbeWords(ProbeSteps(q1, q2)) : InLang(q1, w) <=> InLang(q2, w)

\* C6: parse round-trip (structural) - for every text s that parse_query
\* accepts, parse_query(parse_query(s).to_string()) succeeds and is
\* structurally equal to parse_query(s).
C6_RoundTripStructural ==
    tpc = "reparsed" => (reparsed.ok /\ reparsed.q = parsed.q)

\* C7: the textual form is re-parsable and meaning-preserving - for every
\* text s that parse_query accepts, parse_query(s).to_string() is accepted by
\* parse_query and the AST it yields denotes the same language of paths as
\* parse_query(s) (queries without Regex, whose language is not defined).
C7_TextualFormPreservesMeaning ==
    tpc = "reparsed" =>
        /\ reparsed.ok
        /\ ~HasRegex(parsed.q) => SameLanguage(parsed.q, reparsed.q)

(***************************************************************************)
(* Compilation outcomes.                                                   *)
(***************************************************************************)
\* find has left the compilation of its query behind, one way or the other
CompileEnded == pc \in {"panicked", "traverse", "done"}

\* C11: compile (QueryDFA::from_query) fails if and only if the AST holds a
\* Regex node - it returns a DFA for every AST without Regex (any bounds,
\* any nesting, empty lists included) and none when a Regex occurs.
C11_CompileFailsIffRegex ==
    CompileEnded => (pc = "panicked" <=> HasRegex(query))

(***************************************************************************)
(* Rejected texts.                                                         *)
(***************************************************************************)
\* the text up to position k, and what follows it
Prefix(t, k) == SubSeq(t, 1, k)
Rest(t, k) == SubSeq(t, k + 1, Len(t))

\* a text that holds something besides blanks
NotBlank(t) == \E i \in 1..Len(t) : t[i] # " "

\* the text holds no quote and no slash, so that a bracket or a modifier in
\* it is not the body of a quoted field or of a regex
Plain(t) == \A i \in 1..Len(t) : t[i] \notin {"\"", "/"}

\* the position of the first "]" from p on, or the position after the text
RECURSIVE BracketEnd(_, _)
BracketEnd(t, p) == IF CharAt(t, p) \in {"]", "EOI"} THEN p ELSE BracketEnd(t, p + 1)

\* a bracket holds a character that no index, range or array wildcard has
MalformedInteger(t) ==
    /\ Plain(t)
    /\ \E i \in 1..Len(t) :
          /\ t[i] = "["
          /\ \E j \in (i + 1)..(BracketEnd(t, i + 1) - 1) : t[j] \notin Digits \cup {":", "*"}

\* the number of characters " of a text without backslash
QuoteCount(t) == Cardinality({i \in 1..Len(t) : t[i] = "\""})

\* a double quote opens and none closes it
UnterminatedQuote(t) ==
    /\ \A i \in 1..Len(t) : t[i] \notin {"/", "\\"}
    /\ QuoteCount(t) % 2 = 1

\* a slash opens a regex and none closes it
UnterminatedRegex(t) ==
    /\ \A i \in 1..Len(t) : t[i] \notin {"\"", "\\"}
    /\ Cardinality({i \in 1..Len(t) : t[i] = "/"}) = 1

\* a "?" stands where no atom precedes it
StrayModifier(t) ==
    /\ Plain(t)
    /\ \E i \in 1..Len(t) :
          /\ t[i] = "?"
          /\ i = 1 \/ t[i - 1] \in {"(", "|", ".", "?"}

\* parse_query has returned
ParseEnded == tpc \in {"parsed", "rejected", "shown", "reparsed"}

\* the AST is the AST of a proper prefix whose rest is more than blanks
ASTOfProperPrefix ==
    \E k \in 0..(Len(input) - 1) :
        /\ NotBlank(Rest(input, k))
        /\ parse_query(Prefix(input, k)).ok
        /\ parse_query(Prefix(input, k)).q = parsed.q

Search ==
    /\ tpc = "parsed" /\ pc = "idle"
    /\ query' = parsed.q
    /\ pc' = "call"
    /\ UNCHANGED <<json, dfa, stack, path, results, calls, prev>>
    /\ UNCHANGED textvars
    /\ UNCHANGED buildvars
    /\ UNCHANGED sharevars

\* the text (*|[*])*."K" of the search for the literal field name K
FixedStringText(K) ==
    <<"(", "*", "|", "[", "*", "]", ")", "*", ".", "\"">> \o K \o <<"\"">>

\* the same search written with an unquoted name
RecursiveDescentText(K) == <<"(", "*", "|", "[", "*", "]", ")", "*", ".">> \o K

\* field names searched for
FixedNames == {<<"c">>, <<"a">>, <<"/", "c">>}

MainTexts ==
    {FixedStringText(K) : K \in FixedNames}
        \cup {RecursiveDescentText(<<"c">>), RecursiveDescentText(<<"a">>)}
        \cup {<<"*", "*", ".", "\"", "/", "c", "\"">>,
              <<"p", ".", "\"", "/", "c", "\"">>,
              <<"a">>, <<"c", ".", "c">>, <<"*", ".", "c">>, <<"l", "[", "0", "]", ".", "c">>}

\* documents with the names at several depths, below objects and arrays,
\* and with keys that only start with a name
MainJsons ==
    { JObject(<<<<"p">>, <<"l">>, <<"c">>>>,
              <<JObject(<<<<"c">>, <<"c", "/", "x">>, <<"/", "c">>, <<"/", "c", "/", "s">>>>,
                        <<JObject(<<<<"g">>>>, <<JLeaf(1)>>), JObject(<<<<"c">>>>, <<JLeaf(2)>>),
                          JLeaf(8), JLeaf(9)>>),
                JArray(<<JObject(<<<<"c">>>>, <<JLeaf(3)>>),
                         JArray(<<JObject(<<<<"c">>, <<"a">>>>, <<JLeaf(4), JLeaf(5)>>)>>)>>),
                JLeaf(6)>>),
      JObject(<<<<"c">>>>, <<JObject(<<<<"c">>>>, <<JObject(<<<<"c">>>>, <<JLeaf(1)>>)>>)>>),
      JArray(<<JArray(<<JLeaf(1)>>), JObject(<<<<"a">>>>, <<JArray(<<JObject(<<<<"a">>>>, <<JLeaf(1)>>)>>)>>)>>),
      JObject(<<<<"a", "c">>, <<"c", "a">>>>, <<JLeaf(1), JLeaf(2)>>),
      JLeaf(7) }

InitMain ==
    /\ input \in MainTexts
    /\ json \in MainJsons
    /\ parsed = NotParsed
    /\ shown = <<>>
    /\ reparsed = NotParsed
    /\ tpc = "parse"
    /\ query = QSequence(<<>>)
    /\ pc = "idle"
    /\ dfa = NoDfa
    /\ stack = <<>>
    /\ path = <<>>
    /\ results = <<>>
    /\ calls = 0
    /\ prev = NoCall
    /\ builder = QSequence(<<>>)
    /\ ops = <<>>
    /\ built = QSequence(<<>>)
    /\ bpc = "idle"
    /\ matchers = <<>>

NextMain == ParseQuery \/ Search \/ Find \/ Visit \/ Descend \/ Skip \/ Return

SpecMain == InitMain /\ [][NextMain]_vars

\* the nodes of a document whose last path step is the field named K
NodesNamed(value, K) ==
    {n \in Nodes(value) : n # <<>> /\ PathTo(value, n)[Len(n)] = PField(K)}

\* the nodes of the records
Emitted == {results[i].node : i \in 1..Len(results)}

\* C13: fixed-string search - the query (*|[*])*."K" emits exactly the nodes
\* of the document whose last path step is the field named K as a whole, at
\* any depth and below any mix of objects and arrays.
C13_FixedStringSearch ==
    \A K \in FixedNames :
        (pc = "done" /\ input = FixedStringText(K)) => Emitted = NodesNamed(json, K)

\* the same search with the name unquoted in the text, for the names that
\* can stand unquoted
RecursiveDescentFindsName ==
    \A K \in {<<"c">>, <<"a">>} :
        (pc = "done" /\ input = RecursiveDescentText(K)) =>
            /\ Emitted = NodesNamed(json, K)
            /\ Len(results) = Cardinality(NodesNamed(json, K))

(***************************************************************************)
(* Emission.                                                               *)
(***************************************************************************)
\* the alternatives of a disjunction, or the atoms of a query, that take
\* the word w
AlternativesTaking(q, w) == {i \in 1..Len(q.qs) : InLang(q.qs[i], w)}

\* C14: no duplicate emission - find emits each node of the document at most
\* once, also when several alternatives of a disjunction or several
\* overlapping ranges accept the node's path.
C14_NoDuplicateEmission ==
    \A i, j \in 1..Len(results) : i # j => results[i].node # results[j].node

\* find has returned for a disjunction, and a record of the result has a
\* path that two alternatives accept
C14_Witness ==
    /\ pc = "done" /\ query.t = "Disjunction"
    /\ \E i \in 1..Len(results) :
          /\ Cardinality(AlternativesTaking(query, results[i].path)) >= 2
          /\ \A j \in 1..Len(results) : j # i => results[j].node # results[i].node

(***************************************************************************)
(* Steps and edges.                                                        *)
(***************************************************************************)
\* a query that is a non-empty list of atoms without modifiers or Regex
AtomsOnly(q) ==
    /\ q.t = "Sequence" /\ q.qs # <<>>
    /\ \A i \in 1..Len(q.qs) : IsAtom(q.qs[i]) /\ q.qs[i].t # "Regex"

\* the edge kind an atom is taken on
EdgeKind(atom) == IF atom.t \in {"Field", "FieldWildcard"} THEN "Field" ELSE "Index"

\* the atom takes the edge: the edge is of the atom's kind, a Field names
\* its key, an Index or a range holds its index; a wildcard takes every edge
\* of its kind
Takes(atom, edge) ==
    /\ edge.p = EdgeKind(atom)
    /\ atom.t = "Field" => edge.name = atom.name
    /\ atom.t = "Index" => edge.idx = atom.lo
    /\ atom.t = "Range" => (UnwrapOr(atom.lo, 0) <= edge.idx /\ (atom.hi = None \/ edge.idx < atom.hi))
    /\ atom.t = "RangeFrom" => atom.lo <= edge.idx

\* the nodes whose path has one edge for each atom, taken by it
NodesTaking(value, atoms) ==
    {n \in Nodes(value) :
        /\ Len(n) = Len(atoms)
        /\ \A i \in 1..Len(n) : Takes(atoms[i], PathTo(value, n)[i])}

\* in any query: the label of a step takes the symbol of every key when it
\* is a FieldWildcard, and the symbol of no index; the label of an Index, a
\* range or an ArrayWildcard takes the symbol of no key
LabelKeepsItsKind(d, label) ==
    /\ label.l = "FieldWildcard" =>
          /\ \A k \in ProbeNames : Covers(label, d.alphabet[get_field_symbol_id(d, k) + 1])
          /\ \A i \in 0..(UsizeMax - 1) :
                get_index_symbol_id(d, i) # None =>
                    ~Covers(label, d.alphabet[get_index_symbol_id(d, i) + 1])
    /\ label.l \in {"Range", "RangeFrom"} =>
          \A k \in ProbeNames : ~Covers(label, d.alphabet[get_field_symbol_id(d, k) + 1])

RECURSIVE HasArrayWildcard(_)
HasArrayWildcard(q) ==
    \/ q.t = "ArrayWildcard"
    \/ \E i \in 1..Len(q.qs) : HasArrayWildcard(q.qs[i])

\* the query with r in the place of every ArrayWildcard
RECURSIVE Substitute(_, _)
Substitute(q, r) ==
    IF q.t = "ArrayWildcard" THEN r
    ELSE [q EXCEPT !.qs = [i \in 1..Len(q.qs) |-> Substitute(q.qs[i], r)]]

\* the unbounded ranges: [:], Range(0, unbounded) and [0:]
UnboundedRanges == {QRange(None, None), QRange(0, None), QRangeFrom(0)}

\* the walk of find returns what find returns as a function
WalkIsFind == pc = "done" => results = find(json, query)

\* C16: unbounded-range equivalence - with Range(None, None), with
\* Range(0, unbounded) or with RangeFrom(0) in the place of the ArrayWildcards
\* of a query, find returns exactly the same list of records.
C16_UnboundedRangeEquivalence ==
    (pc = "done" /\ HasArrayWildcard(query)) =>
        \A r \in UnboundedRanges :
            /\ ~build_dfa_panics(Substitute(query, r))
            /\ find(json, Substitute(query, r)) = results

\* find has returned records below array elements for a query with an
\* ArrayWildcard inside a KleeneStar or after a field
C16_Witness ==
    /\ pc = "done" /\ HasArrayWildcard(query) /\ query # QSequence(<<QArrayWildcard>>)
    /\ Len(results) >= 2
    /\ \E i \in 1..Len(results) :
          \E k \in 1..Len(results[i].path) : results[i].path[k] = PIndex(1)
    /\ find(json, Substitute(query, QRangeFrom(0))) = results

(***************************************************************************)
(* Bounded ranges.                                                         *)
(***************************************************************************)
\* the Range nodes of a query with an upper bound
BoundedRanges(q) == {a \in IndexAtoms(q) : a.t = "Range" /\ a.hi # None}

\* a bounded range that holds no index
IsEmptyRange(a) == UnwrapOr(a.lo, 0) >= a.hi

\* the step of the atom is taken on the array index i: the index has a
\* symbol and the label of the atom takes it
StepTakenOn(d, atom, i) ==
    /\ get_index_symbol_id(d, i) # None
    /\ Covers(linearize_query(atom)[1], d.alphabet[get_index_symbol_id(d, i) + 1])

\* the endpoints of the entries of range_to_range_id
EntryEndpoints(d) ==
    UNION {{d.range_to_range_id[k].start, d.range_to_range_id[k].end}
             : k \in 1..Len(d.range_to_range_id)}

\* the endpoints of the ranges the atoms of a set collect
CollectedEndpoints(atoms) ==
    UNION {{collected_ranges(a)[1][1], collected_ranges(a)[1][2]} : a \in atoms}

\* C17: half-open bounded range - the step Range(lo, hi) is taken on the
\* array index i if and only if lo <= i < hi; a range with lo >= hi is taken
\* on no index, gives the alphabet no interval and leaves the intervals of
\* the other ranges of the query as they are without it.
C17_HalfOpenRange ==
    Compiled =>
        /\ \A a \in BoundedRanges(query) : \A i \in 0..UsizeMax :
              StepTakenOn(dfa, a, i) <=> (UnwrapOr(a.lo, 0) <= i /\ i < a.hi)
        /\ EntryEndpoints(dfa) =
              CollectedEndpoints({a \in IndexAtoms(query) :
                                     collected_ranges(a)[1][1] < collected_ranges(a)[1][2]})
        /\ (pc = "done" /\ AtomsOnly(query) /\ \E k \in 1..Len(query.qs) :
                query.qs[k] \in BoundedRanges(query) /\ IsEmptyRange(query.qs[k]))
              => results = <<>>

\* find has returned records for a query that holds a range with lo >= hi
\* beside a range that takes some elements of an array and not others
C17_Witness ==
    /\ pc = "done"
    /\ \E a \in BoundedRanges(query) : IsEmptyRange(a)
    /\ \E a \in BoundedRanges(query) :
          /\ StepTakenOn(dfa, a, 1) /\ ~StepTakenOn(dfa, a, 2)
          /\ \E i \in 1..Len(results) : results[i].path = <<PField(<<"a">>), PIndex(1)>>
    /\ \A i \in 1..Len(results) : results[i].path # <<PField(<<"a">>), PIndex(2)>>
    /\ \E n \in Nodes(json) : PathTo(json, n) = <<PField(<<"a">>), PIndex(2)>>

(***************************************************************************)
(* QueryBuilder (ast.rs).  A call consumes the builder and returns it with *)
(* its query replaced; the calls made so far are kept as the chain the     *)
(* caller wrote.                                                           *)
(***************************************************************************)
\* Bound on the number of calls chained on one builder before build
MaxOps == 3

\* one call of the chain: the method, the atom it appends (append-style
\* methods) and the list it was given (disjunction, sequence)
Call(op, atom, qs) == [op |-> op, atom |-> atom, qs |-> qs]
NoAtom == QSequence(<<>>)

\* Variant of the append that starts a new Sequence of the current query and
\* the atom whatever the current query is; the append property must tell
\* it from Appended.
Appended_nesting(q, atom) == QSequence(<<q, atom>>)

\* Variant of the append that keeps the elements of a Disjunction and adds
\* the atom to them; the replace property must tell it from Appended.
Appended_into_disjunction(q, atom) ==
    IF q.t \in {"Sequence", "Disjunction"} THEN Node(q.t, <<>>, None, None, Append(q.qs, atom))
    ELSE QSequence(<<q, atom>>)

\* the match of the append-style methods: push onto the current Sequence, or
\* make a Sequence of the current query and the atom
Appended(q, atom) ==
    IF q.t = "Sequence" THEN QSequence(Append(q.qs, atom)) ELSE QSequence(<<q, atom>>)

\* std::ops::Bound<usize>
Bound(kind, n) == [kind |-> kind, n |-> n]
Unbounded == Bound("Unbounded", 0)

\* range(): the start and the end of the Range from the bounds
StartOf(b) ==
    CASE b.kind = "Included" -> b.n
      [] b.kind = "Excluded" -> WrapAdd(b.n, 1)
      [] OTHER -> None
EndOf(b) ==
    CASE b.kind = "Included" -> WrapAdd(b.n, 1)
      [] b.kind = "Excluded" -> b.n
      [] OTHER -> None

\* `s + 1` or `e + 1` overflows: a build with overflow checks panics there
BoundOverflows(start_bound, end_bound) ==
    \/ start_bound.kind = "Excluded" /\ start_bound.n = UsizeMax
    \/ end_bound.kind = "Included" /\ end_bound.n = UsizeMax

\* arguments of the calls
BuilderNames == {<<"a">>}
BuilderIndexes == {1}
BuilderBounds ==
    { <<Bound("Included", 1), Bound("Excluded", 3)>>,
      <<Unbounded, Bound("Included", 1)>>,
      <<Bound("Excluded", 0), Unbounded>>,
      <<Bound("Included", 0), Bound("Included", UsizeMax)>> }
BuilderLists == {<<>>, <<Fa, Fb>>, <<QSequence(<<Fa>>), QOptional(Fb)>>}

field ==
    \E name \in BuilderNames :
       /\ bpc = "building" /\ Len(ops) < MaxOps
       /\ builder' = Appended(builder, QField(name))
       /\ ops' = Append(ops, Call("field", QField(name), <<>>))
       /\ UNCHANGED <<built, bpc>>
       /\ UNCHANGED matchvars
       /\ UNCHANGED textvars
       /\ UNCHANGED sharevars

index ==
    \E idx \in BuilderIndexes :
       /\ bpc = "building" /\ Len(ops) < MaxOps
       /\ builder' = Appended(builder, QIndex(idx))
       /\ ops' = Append(ops, Call("index", QIndex(idx), <<>>))
       /\ UNCHANGED <<built, bpc>>
       /\ UNCHANGED matchvars
       /\ UNCHANGED textvars
       /\ UNCHANGED sharevars

range ==
    \E r \in BuilderBounds :
        \/ /\ BoundOverflows(r[1], r[2])
           /\ bpc = "building" /\ Len(ops) < MaxOps
           /\ bpc' = "panicked"
           /\ ops' = Append(ops, Call("range", NoAtom, <<>>))
           /\ UNCHANGED <<builder, built>>
           /\ UNCHANGED matchvars
           /\ UNCHANGED textvars
           /\ UNCHANGED sharevars
        \/ /\ bpc = "building" /\ Len(ops) < MaxOps
           /\ builder' = Appended(builder, QRange(StartOf(r[1]), EndOf(r[2])))
           /\ ops' = Append(ops, Call("range", QRange(StartOf(r[1]), EndOf(r[2])), <<>>))
           /\ UNCHANGED <<built, bpc>>
           /\ UNCHANGED matchvars
           /\ UNCHANGED textvars
           /\ UNCHANGED sharevars

field_wildcard ==
    /\ bpc = "building" /\ Len(ops) < MaxOps
    /\ builder' = Appended(builder, QFieldWildcard)
    /\ ops' = Append(ops, Call("field_wildcard", QFieldWildcard, <<>>))
    /\ UNCHANGED <<built, bpc>>
    /\ UNCHANGED matchvars
    /\ UNCHANGED textvars
    /\ UNCHANGED sharevars

array_wildcard ==
    /\ bpc = "building" /\ Len(ops) < MaxOps
    /\ builder' = Appended(builder, QArrayWildcard)
    /\ ops' = Append(ops, Call("array_wildcard", QArrayWildcard, <<>>))
    /\ UNCHANGED <<built, bpc>>
    /\ UNCHANGED matchvars
    /\ UNCHANGED textvars
    /\ UNCHANGED sharevars

regex ==
    \E re \in {<<"x">>} :
       /\ bpc = "building" /\ Len(ops) < MaxOps
       /\ builder' = Appended(builder, QRegex(re))
       /\ ops' = Append(ops, Call("regex", QRegex(re), <<>>))
       /\ UNCHANGED <<built, bpc>>
       /\ UNCHANGED matchvars
       /\ UNCHANGED textvars
       /\ UNCHANGED sharevars

optional ==
    /\ bpc = "building" /\ Len(ops) < MaxOps
    /\ builder' = IF builder.t = "Sequence" /\ builder.qs # <<>>
                  THEN QSequence([builder.qs EXCEPT ![Len(builder.qs)] = QOptional(@)])
                  ELSE QSequence(<<QOptional(builder)>>)
    /\ ops' = Append(ops, Call("optional", NoAtom, <<>>))
    /\ UNCHANGED <<built, bpc>>
    /\ UNCHANGED matchvars
    /\ UNCHANGED textvars
    /\ UNCHANGED sharevars

kleene_star ==
    /\ bpc = "building" /\ Len(ops) < MaxOps
    /\ builder' = IF builder.t = "Sequence" /\ builder.qs # <<>>
                  THEN QSequence([builder.qs EXCEPT ![Len(builder.qs)] = QKleeneStar(@)])
                  ELSE QSequence(<<QKleeneStar(builder)>>)
    /\ ops' = Append(ops, Call("kleene_star", NoAtom, <<>>))
    /\ UNCHANGED <<built, bpc>>
    /\ UNCHANGED matchvars
    /\ UNCHANGED textvars
    /\ UNCHANGED sharevars

disjunction ==
    /\ bpc = "building" /\ Len(ops) < MaxOps
    /\ \E queries \in BuilderLists :
          /\ builder' = QDisjunction(queries)
          /\ ops' = Append(ops, Call("disjunction", NoAtom, queries))
    /\ UNCHANGED <<built, bpc>>
    /\ UNCHANGED matchvars
    /\ UNCHANGED textvars
    /\ UNCHANGED sharevars

sequence ==
    /\ bpc = "building" /\ Len(ops) < MaxOps
    /\ \E queries \in BuilderLists :
          /\ builder' = QSequence(queries)
          /\ ops' = Append(ops, Call("sequence", NoAtom, queries))
    /\ UNCHANGED <<built, bpc>>
    /\ UNCHANGED matchvars
    /\ UNCHANGED textvars
    /\ UNCHANGED sharevars

build ==
    /\ bpc = "building"
    /\ built' = builder
    /\ bpc' = "built"
    /\ UNCHANGED <<builder, ops>>
    /\ UNCHANGED matchvars
    /\ UNCHANGED textvars
    /\ UNCHANGED sharevars

\* QueryBuilder::new()
InitBuilder ==
    /\ builder = QSequence(<<>>)
    /\ ops = <<>>
    /\ built = QSequence(<<>>)
    /\ bpc = "building"
    /\ matchers = <<>>
    /\ input = <<>>
    /\ parsed = NotParsed
    /\ shown = <<>>
    /\ reparsed = NotParsed
    /\ tpc = "idle"
    /\ query = QSequence(<<>>)
    /\ json = JLeaf(7)
    /\ pc = "idle"
    /\ dfa = NoDfa
    /\ stack = <<>>
    /\ path = <<>>
    /\ results = <<>>
    /\ calls = 0
    /\ prev = NoCall

NextBuilder ==
    \/ field \/ index \/ range \/ field_wildcard \/ array_wildcard \/ regex
    \/ optional \/ kleene_star \/ disjunction \/ sequence \/ build

SpecBuilder == InitBuilder /\ [][NextBuilder]_vars

\* the append-style methods
AppendStyle == {"field", "index", "range", "field_wildcard", "array_wildcard", "regex"}

\* the step is a call of the method op
CallOf(op) == Len(ops') = Len(ops) + 1 /\ ops'[Len(ops')].op = op

\* the query with its last element wrapped, or wrapped whole when it is an
\* empty Sequence or no Sequence (W is "Optional" or "KleeneStar")
LastWrapped(q, W) ==
    IF q.t = "Sequence" /\ Len(q.qs) >= 1
    THEN QSequence(SubSeq(q.qs, 1, Len(q.qs) - 1)
                   \o <<Node(W, <<>>, None, None, <<q.qs[Len(q.qs)]>>)>>)
    ELSE QSequence(<<Node(W, <<>>, None, None, <<q>>)>>)

\* build returns the Sequence of the appended atoms in call order when the
\* calls were append-style, and a Sequence whenever disjunction was not called
BuildReturnsAppended ==
    bpc = "built" =>
        /\ built = builder
        /\ (\A i \in 1..Len(ops) : ops[i].op \in AppendStyle) =>
              built = QSequence([i \in 1..Len(ops) |-> ops[i].atom])
        /\ (\A i \in 1..Len(ops) : ops[i].op # "disjunction") => built.t = "Sequence"

\* optional and kleene_star wrap the last element, or the whole query, and
\* do not panic
WrapStep ==
    /\ CallOf("optional") => (builder' = LastWrapped(builder, "Optional") /\ bpc' = "building")
    /\ CallOf("kleene_star") => (builder' = LastWrapped(builder, "KleeneStar") /\ bpc' = "building")

LastCall == ops[Len(ops)]

\* build returns the list given to a disjunction or a sequence called last,
\* whatever was built before it
BuildReturnsReplaced ==
    (bpc = "built" /\ Len(ops) >= 1) =>
        /\ LastCall.op = "disjunction" => built = QDisjunction(LastCall.qs)
        /\ LastCall.op = "sequence" => built = QSequence(LastCall.qs)

\* disjunction and sequence set the current query; an append-style call on
\* a Disjunction makes the Sequence of the Disjunction and the atom
ReplaceStep ==
    /\ CallOf("disjunction") => builder' = QDisjunction(ops'[Len(ops')].qs)
    /\ CallOf("sequence") => builder' = QSequence(ops'[Len(ops')].qs)
    /\ ((\E op \in AppendStyle : CallOf(op)) /\ builder.t = "Disjunction" /\ bpc' = "building")
          => builder' = QSequence(<<builder, ops'[Len(ops')].atom>>)

NumMatchers == 2
Matchers == 1..NumMatchers

\* a matcher at the call of traverse_json on the root of its document
Matcher(value) ==
    [value |-> value, stack |-> <<Frame(<<>>, 0, 0)>>, path |-> <<>>,
     results |-> <<>>, pc |-> "traverse"]

TopOf(w) == w.stack[Len(w.stack)]
TopValueOf(w) == ValueAt(w.value, TopOf(w).node)

\* traverse_json of one matcher, entry: an accepting state records the node
VisitBy ==
    \E m \in Matchers :
        /\ matchers[m].pc = "traverse" /\ TopOf(matchers[m]).next = 0
        /\ matchers' = [matchers EXCEPT
              ![m].results = IF is_accepting_state(dfa, TopOf(matchers[m]).state)
                             THEN Append(@, Pointer(matchers[m].path, TopOf(matchers[m]).node))
                             ELSE @,
              ![m].stack[Len(matchers[m].stack)].next = 1]
        /\ UNCHANGED matchvars
        /\ UNCHANGED textvars
        /\ UNCHANGED buildvars

\* Variant of the loop body in which all matchers push on one path stack;
\* the shared-DFA property must tell it from DescendBy.
DescendBy_on_one_path ==
    \E m \in Matchers :
        /\ matchers[m].pc = "traverse"
        /\ TopOf(matchers[m]).next \in 1..Len(TopValueOf(matchers[m]).kids)
        /\ NextState(dfa, TopOf(matchers[m]).state, TopValueOf(matchers[m]), TopOf(matchers[m]).next) # Dead
        /\ matchers' = [n \in Matchers |->
              IF n = m
              THEN [matchers[m] EXCEPT
                      !.path = Append(@, EdgeOf(TopValueOf(matchers[m]), TopOf(matchers[m]).next)),
                      !.stack = Append([@ EXCEPT ![Len(@)].next = TopOf(matchers[m]).next + 1],
                                       Frame(Append(TopOf(matchers[m]).node, TopOf(matchers[m]).next),
                                             NextState(dfa, TopOf(matchers[m]).state,
                                                       TopValueOf(matchers[m]), TopOf(matchers[m]).next), 0))]
              ELSE [matchers[n] EXCEPT
                      !.path = Append(@, EdgeOf(TopValueOf(matchers[m]), TopOf(matchers[m]).next))]]
        /\ UNCHANGED matchvars
        /\ UNCHANGED textvars
        /\ UNCHANGED buildvars

\* traverse_json of one matcher, loop body with a transition: push the edge
\* on its own path and recurse
DescendBy ==
    \E m \in Matchers :
        /\ matchers[m].pc = "traverse"
        /\ TopOf(matchers[m]).next \in 1..Len(TopValueOf(matchers[m]).kids)
        /\ NextState(dfa, TopOf(matchers[m]).state, TopValueOf(matchers[m]), TopOf(matchers[m]).next) # Dead
        /\ matchers' = [matchers EXCEPT
              ![m].path = Append(@, EdgeOf(TopValueOf(matchers[m]), TopOf(matchers[m]).next)),
              ![m].stack = Append([@ EXCEPT ![Len(@)].next = TopOf(matchers[m]).next + 1],
                                  Frame(Append(TopOf(matchers[m]).node, TopOf(matchers[m]).next),
                                        NextState(dfa, TopOf(matchers[m]).state,
                                                  TopValueOf(matchers[m]), TopOf(matchers[m]).next), 0))]
        /\ UNCHANGED matchvars
        /\ UNCHANGED textvars
        /\ UNCHANGED buildvars

\* traverse_json of one matcher, loop body without a symbol or a transition
SkipBy ==
    \E m \in Matchers :
        /\ matchers[m].pc = "traverse"
        /\ TopOf(matchers[m]).next \in 1..Len(TopValueOf(matchers[m]).kids)
        /\ NextState(dfa, TopOf(matchers[m]).state, TopValueOf(matchers[m]), TopOf(matchers[m]).next) = Dead
        /\ matchers' = [matchers EXCEPT
              ![m].stack[Len(matchers[m].stack)].next = TopOf(matchers[m]).next + 1]
        /\ UNCHANGED matchvars
        /\ UNCHANGED textvars
        /\ UNCHANGED buildvars

\* traverse_json of one matcher returns; the caller pops the edge it pushed,
\* and when the root activation returns the matcher has its records
ReturnBy ==
    \E m \in Matchers :
        /\ matchers[m].pc = "traverse"
        /\ TopOf(matchers[m]).next > Len(TopValueOf(matchers[m]).kids)
        /\ matchers' = [matchers EXCEPT
              ![m].stack = SubSeq(@, 1, Len(@) - 1),
              ![m].path = IF Len(matchers[m].stack) > 1 THEN SubSeq(@, 1, Len(@) - 1) ELSE @,
              ![m].pc = IF Len(matchers[m].stack) > 1 THEN "traverse" ELSE "done"]
        /\ UNCHANGED matchvars
        /\ UNCHANGED textvars
        /\ UNCHANGED buildvars

\* queries compiled once and documents handed to the matchers
SharedQueries ==
    { QSequence(<<AnyPath, Fc>>),
      QSequence(<<Fa, QRange(1, 3)>>),
      QSequence(<<AnyPath, QArrayWildcard>>) }

SharedJsons ==
    { JObject(<<<<"c">>>>, <<JObject(<<<<"c">>>>, <<JObject(<<<<"c">>>>, <<JLeaf(1)>>)>>)>>),
      JObject(<<<<"a">>, <<"d">>>>, <<JArray(<<JLeaf(1), JLeaf(2), JLeaf(3)>>), JLeaf(4)>>),
      JArray(<<JObject(<<<<"a">>>>, <<JObject(<<<<"c">>>>, <<JLeaf(1)>>)>>)>>) }

\* the DFA is compiled, and every matcher is at its call of traverse_json
InitShared ==
    /\ query \in SharedQueries
    /\ dfa = build_dfa(query)
    /\ matchers \in [Matchers -> {Matcher(value) : value \in SharedJsons}]
    /\ json = JLeaf(0)
    /\ pc = "idle"
    /\ stack = <<>>
    /\ path = <<>>
    /\ results = <<>>
    /\ calls = 0
    /\ prev = NoCall
    /\ input = <<>>
    /\ parsed = NotParsed
    /\ shown = <<>>
    /\ reparsed = NotParsed
    /\ tpc = "idle"
    /\ builder = QSequence(<<>>)
    /\ ops = <<>>
    /\ built = QSequence(<<>>)
    /\ bpc = "idle"

NextShared == VisitBy \/ DescendBy \/ SkipBy \/ ReturnBy

SpecShared == InitShared /\ [][NextShared]_vars

\* a matcher that has returned holds the records of traverse_json run alone
\* on its document
ResultsAsAlone ==
    \A m \in DOMAIN matchers :
        matchers[m].pc = "done" =>
            matchers[m].results = traverse_json(dfa, dfa.start_state, <<>>, matchers[m].value, <<>>)

\* a step is a step of one matcher: the DFA and the other matchers stay as
\* they are, and so does the document of the matcher
WritesOwnOnly ==
    /\ dfa' = dfa
    /\ \E m \in DOMAIN matchers :
          /\ \A n \in DOMAIN matchers \ {m} : matchers'[n] = matchers[n]
          /\ matchers'[m].value = matchers[m].value

\* C20: shared DFA under concurrency - when several matchers run interleaved
\* in any order over one compiled DFA, on the same or on different
\* documents, each returns the record list it returns when run alone; a
\* matcher writes only its own path stack and its own result buffer.
C20_SharedDFA ==
    []ResultsAsAlone /\ [][WritesOwnOnly]_vars

\* one matcher has returned with records while another one, on a different
\* document, is inside its walk with records of its own
C20_Witness ==
    \E m, n \in DOMAIN matchers :
        /\ matchers[m].pc = "done" /\ matchers[m].results # <<>>
        /\ matchers[n].pc = "traverse" /\ Len(matchers[n].stack) >= 2
        /\ matchers[n].results # <<>>
        /\ matchers[n].value # matchers[m].value

\* a step of matching: a step of traverse_json inside a call of find
MatchingStep == pc = "traverse"

\* the step leaves the document, the query AST and every field of the DFA
\* as they are
NothingMutated ==
    /\ json' = json
    /\ query' = query
    /\ dfa'.transitions = dfa.transitions
    /\ dfa'.is_accepting = dfa.is_accepting
    /\ dfa'.alphabet = dfa.alphabet
    /\ dfa'.key_to_key_id = dfa.key_to_key_id
    /\ dfa'.range_to_range_id = dfa.range_to_range_id
    /\ dfa' = dfa

\* C21: no mutation - every step of matching leaves the JSON value, the
\* query AST and every field of the compiled DFA (transitions, is_accepting,
\* alphabet, key_to_key_id, range_to_range_id) unchanged.
C21_NoMutation ==
    [][MatchingStep => NothingMutated]_vars

\* find has returned records after a walk that descended and skipped a
\* member, and the DFA is still the one compiled from the query
C21_Witness ==
    /\ pc = "done" /\ results # <<>>
    /\ \E i \in 1..Len(results) : Len(results[i].path) >= 2
    /\ Len(json.kids) > Len(results)
    /\ dfa = build_dfa(query)

\* inside the walk a step leads to the walk or to the return of find, never
\* to another position
NoErrorInMatching == pc = "traverse" => pc' \in {"traverse", "done"}

\* C22: matching is total - for every compiled DFA and every finite JSON
\* value (any nesting of objects and arrays, empty containers and scalar
\* roots included) the walk eventually returns a result list and never
\* reaches an error state; an empty list is a normal outcome.
C22_MatchingTotal ==
    /\ (pc = "traverse") ~> (pc = "done")
    /\ [][NoErrorInMatching]_vars

\* find has returned the empty list for a query that needs a step, on an
\* empty container or on a scalar root
C22_Witness ==
    /\ pc = "done" /\ results = <<>>
    /\ json.kids = <<>>
    /\ ~IsEmptyQuery(query)

\* First of a query whose first position is `start`, by the rules of the
\* construction: an atom is its own position, a Disjunction takes every
\* child, a Sequence the leading run of children up to and including the
\* first that is not nullable, each child at its own positions
RECURSIVE FirstOf(_, _)
FirstOf(q, start) ==
    CASE IsAtom(q) -> {start}
      [] q.t = "Disjunction" ->
            UNION {FirstOf(q.qs[i], start + PrefixLen(q.qs, i - 1)) : i \in 1..Len(q.qs)}
      [] q.t = "Sequence" ->
            UNION {FirstOf(q.qs[i], start + PrefixLen(q.qs, i - 1)) :
                     i \in {k \in 1..Len(q.qs) : \A h \in 1..(k - 1) : contains_empty_word(q.qs[h])}}
      [] OTHER -> FirstOf(q.qs[1], start)

\* C23: First set of a Sequence - for Sequence([Q1..Qn]) the computed First
\* set is the union of First(Qi) over the leading run of children up to and
\* including the first non-nullable child, each First(Qi) in Qi's own
\* positions; with Optional(Sequence([a, b])) followed by c the positions
\* marked are those of a and of c, not the position of b.
C23_FirstOfSequence ==
    (Compiled /\ query.t = "Sequence" /\ count_subquery_positions(query) > 0) =>
        NFA_from_query(query).is_first = FirstOf(query, 0)

\* Nullable by the rules of the construction: no atom, all children of a
\* Sequence, any child of a Disjunction, every Optional and KleeneStar
RECURSIVE NullableOf(_)
NullableOf(q) ==
    CASE IsAtom(q) -> FALSE
      [] q.t = "Sequence" -> \A i \in 1..Len(q.qs) : NullableOf(q.qs[i])
      [] q.t = "Disjunction" -> \E i \in 1..Len(q.qs) : NullableOf(q.qs[i])
      [] OTHER -> TRUE

\* Last of a query whose first position is `start`: an atom is its own
\* position, a Disjunction takes every child, a Sequence the trailing run of
\* children back to and including the last that is not nullable
RECURSIVE LastOf(_, _)
LastOf(q, start) ==
    CASE IsAtom(q) -> {start}
      [] q.t = "Disjunction" ->
            UNION {LastOf(q.qs[i], start + PrefixLen(q.qs, i - 1)) : i \in 1..Len(q.qs)}
      [] q.t = "Sequence" ->
            UNION {LastOf(q.qs[i], start + PrefixLen(q.qs, i - 1)) :
                     i \in {k \in 1..Len(q.qs) : \A h \in (k + 1)..Len(q.qs) : NullableOf(q.qs[h])}}
      [] OTHER -> LastOf(q.qs[1], start)

\* QueryNFA::from_query has run in this call of find
NfaBuilt == pc \in {"panicked", "traverse", "done"} /\ ~HasRegex(query) /\ ~IsEmptyQuery(query)

\* the NFA has one state per position and the start state 0, and accepts in
\* the states of the Last positions and, for a nullable query, in state 0
NFAShape(q) ==
    /\ NFA_from_query(q).num_states = count_subquery_positions(q) + 1
    /\ NFA_from_query(q).start_state = 0
    /\ \A p \in 1..count_subquery_positions(q) :
          p \in NFA_from_query(q).is_accepting <=> (p - 1) \in LastOf(q, 0)
    /\ 0 \in NFA_from_query(q).is_accepting <=> NullableOf(q)
    /\ contains_empty_word(q) <=> NullableOf(q)

\* C24: NFA shape and acceptance - for a query with P atom positions the NFA
\* has exactly P+1 states with start state 0; state p (p >= 1) is accepting
\* iff position p is in Last(whole); state 0 is accepting iff
\* Nullable(whole), where Nullable is false for atoms, `all children` for
\* Sequence, `any child` for Disjunction (hence false for an empty
\* Disjunction) and true for Optional and KleeneStar.
C24_NFAShapeAndAcceptance ==
    NfaBuilt => NFAShape(query)

\* the position counter after compute_last_set has walked the query from
\* position `start`
LastWalkAdvance(q, start) ==
    compute_last_set(q, start, count_subquery_positions(query)).pos - start

\* the Sequences inside a query, each with its first position
RECURSIVE SequencesIn(_, _)
SequencesIn(q, start) ==
    (IF q.t = "Sequence" THEN {<<q, start>>} ELSE {})
        \cup UNION {SequencesIn(q.qs[i], start + PrefixLen(q.qs, i - 1)) : i \in 1..Len(q.qs)}

\* C25: Last set of a Sequence - for Sequence([Q1..Qn]) the computed Last
\* set is the union of Last(Qi) over the trailing run of children back to
\* and including the last non-nullable child, each in Qi's own positions,
\* and after the computation the position counter has advanced by exactly
\* the number of positions of the whole Sequence.
C25_LastOfSequence ==
    NfaBuilt =>
        \A e \in SequencesIn(query, 0) :
            /\ compute_last_set(e[1], e[2], count_subquery_positions(query)).s = LastOf(e[1], e[2])
            /\ LastWalkAdvance(e[1], e[2]) = count_subquery_positions(e[1])

\* compiled: a Sequence whose last child is nullable and spans two
\* positions, behind a non-nullable child, so that the trailing run has two
\* children and the reverse loop must place the first one by the lengths
C25_Witness ==
    /\ Compiled
    /\ \E e \in SequencesIn(query, 0) :
          /\ Len(e[1].qs) >= 2
          /\ NullableOf(e[1].qs[Len(e[1].qs)])
          /\ count_subquery_positions(e[1].qs[Len(e[1].qs)]) >= 2
          /\ ~NullableOf(e[1].qs[Len(e[1].qs) - 1])
          /\ Cardinality(LastOf(e[1], e[2])) >= 2
          /\ NFA_from_query(query).is_ending = LastOf(query, 0)

\* the children of a Sequence with their first positions: the pairs
\* Follow must hold across the Sequence by the rule of the construction,
\* Last(Qi) x First(Qj) for i < j with every child between them nullable
AcrossPairs(qs, start) ==
    UNION {BoundaryPairs(LastOf(qs[ij[1]], start + PrefixLen(qs, ij[1] - 1)),
                         FirstOf(qs[ij[2]], start + PrefixLen(qs, ij[2] - 1))) :
             ij \in {p \in (1..Len(qs)) \X (1..Len(qs)) :
                       /\ p[1] < p[2]
                       /\ \A h \in (p[1] + 1)..(p[2] - 1) : NullableOf(qs[h])}}

\* the pairs of Last(Qi) x First(Qj) for i < j with a child between them
\* that is not nullable
BlockedPairs(qs, start) ==
    UNION {BoundaryPairs(LastOf(qs[ij[1]], start + PrefixLen(qs, ij[1] - 1)),
                         FirstOf(qs[ij[2]], start + PrefixLen(qs, ij[2] - 1))) :
             ij \in {p \in (1..Len(qs)) \X (1..Len(qs)) :
                       /\ p[1] < p[2]
                       /\ \E h \in (p[1] + 1)..(p[2] - 1) : ~NullableOf(qs[h])}}

\* the pairs the Sequence arm adds on top of those of the children
AddedBySequence(e) ==
    compute_follows_set(e[1], e[2], count_subquery_positions(query)).s
        \ FollowsChildren(e[1].qs, 1, e[2], count_subquery_positions(query)).s

\* C26: Follow across a Sequence - for Sequence([Q1..Qn]) and i < j,
\* Follow(p) contains First(Qj) for every p in Last(Qi) if and only if
\* every child strictly between i and j is nullable (in **.[*]*.[*] the
\* FieldWildcard position is followed by the second ArrayWildcard
\* position); no pair is added across a non-nullable child.
C26_FollowAcrossSequence ==
    NfaBuilt =>
        \A e \in SequencesIn(query, 0) :
            /\ AcrossPairs(e[1].qs, e[2]) \subseteq NFA_from_query(query).factors
            /\ (AddedBySequence(e) \cap BlockedPairs(e[1].qs, e[2])) \subseteq AcrossPairs(e[1].qs, e[2])

\* every sub-query of a query with its first position
RECURSIVE SubQueries(_, _)
SubQueries(q, start) ==
    {<<q, start>>}
        \cup (IF q.t \in {"Sequence", "Disjunction"}
              THEN UNION {SubQueries(q.qs[i], start + PrefixLen(q.qs, i - 1)) : i \in 1..Len(q.qs)}
              ELSE IF q.t \in {"Optional", "KleeneStar"} THEN SubQueries(q.qs[1], start)
              ELSE {})

\* the pairs compute_follows_set gives for a sub-query at its positions
FactorsOf(e) == compute_follows_set(e[1], e[2], count_subquery_positions(query)).s

\* what the arm of the sub-query adds on top of the pairs of its children
FollowArm(e) ==
    CASE e[1].t = "KleeneStar" ->
            FactorsOf(e) = FactorsOf(<<e[1].qs[1], e[2]>>)
                              \cup BoundaryPairs(LastOf(e[1].qs[1], e[2]), FirstOf(e[1].qs[1], e[2]))
      [] e[1].t = "Optional" -> FactorsOf(e) = FactorsOf(<<e[1].qs[1], e[2]>>)
      [] e[1].t = "Disjunction" ->
            FactorsOf(e) = UNION {FactorsOf(<<e[1].qs[i], e[2] + PrefixLen(e[1].qs, i - 1)>>)
                                    : i \in 1..Len(e[1].qs)}
      [] e[1].t = "Sequence" -> TRUE
      [] OTHER -> FactorsOf(e) = {}

\* C27: Follow of KleeneStar and Optional - KleeneStar(Q) adds First(Q) to
\* Follow(p) for every p in Last(Q) on top of the Follow pairs of Q;
\* Optional(Q) adds no pair beyond those of Q; atoms add none; a
\* Disjunction adds only the pairs of its children and no pair between
\* different alternatives.
C27_FollowOfStarAndOptional ==
    NfaBuilt => \A e \in SubQueries(query, 0) : FollowArm(e)

\* Bound on the length of the words the two automata are run on
MaxRunLen == 4

\* the symbol ids of the compiled alphabet
SymbolIds(d) == 0..(Len(d.alphabet) - 1)

\* One step of both automata on a symbol: the DFA by its table (Dead when
\* the run does not exist), the NFA from every state of the set along the
\* transitions whose label takes the symbol.
RunStep(d, nfa, r, a) ==
    <<IF r[1] = Dead THEN Dead ELSE transition(d, r[1], a),
      NextNfaStates(nfa, r[2], d.alphabet[a + 1])>>

\* the pairs <<DFA state, set of NFA states>> that the words of length k
\* lead to, from DFA state 0 and NFA state 0
RECURSIVE RunsOfLength(_, _, _)
RunsOfLength(d, nfa, k) ==
    IF k = 0 THEN {<<d.start_state, {nfa.start_state}>>}
    ELSE {RunStep(d, nfa, r, a) : r \in RunsOfLength(d, nfa, k - 1), a \in SymbolIds(d)}

\* the DFA run exists and ends in an accepting state
DfaAccepts(d, r) == r[1] # Dead /\ is_accepting_state(d, r[1])

\* some NFA run ends in an accepting state
NfaAccepts(nfa, r) == r[2] \cap nfa.is_accepting # {}

\* find has just compiled the query
JustCompiled == pc = "traverse" /\ Len(stack) = 1 /\ Top.next = 0 /\ ~IsEmptyQuery(query)

\* C28: subset construction preserves the language - for every NFA of the
\* Glushkov stage and every word w over the compiled DFA alphabet, the DFA
\* run on w from state 0 exists and ends in an accepting state if and only
\* if some NFA run on w, reading each symbol through the label-coverage
\* rules, ends in an accepting NFA state.
C28_SubsetConstructionPreservesLanguage ==
    JustCompiled =>
        \A k \in 0..MaxRunLen :
            \A r \in RunsOfLength(dfa, NFA_from_query(query), k) :
                DfaAccepts(dfa, r) <=> NfaAccepts(NFA_from_query(query), r)

\* compiled: a word of two symbols on which two NFA runs exist, one of them
\* ending in an accepting state, and the DFA accepts it; and a word on which
\* no run of either automaton exists
C28_Witness ==
    /\ JustCompiled
    /\ \E r \in RunsOfLength(dfa, NFA_from_query(query), 2) :
          /\ Cardinality(r[2]) >= 2
          /\ r[2] \ NFA_from_query(query).is_accepting # {}
          /\ DfaAccepts(dfa, r) /\ NfaAccepts(NFA_from_query(query), r)
    /\ \E r \in RunsOfLength(dfa, NFA_from_query(query), 2) : r = <<Dead, {}>>

\* C29: DFA acceptance - a DFA state is accepting if and only if the set of
\* NFA states it stands for contains at least one accepting NFA state; DFA
\* state 0 stands for {NFA state 0} and is accepting iff NFA state 0 is
\* accepting.
C29_DFAAcceptance ==
    JustCompiled =>
        /\ Len(dfa.dfa_states) = dfa.num_states
        /\ \A s \in 0..(dfa.num_states - 1) :
              is_accepting_state(dfa, s)
                  <=> dfa.dfa_states[s + 1] \cap NFA_from_query(query).is_accepting # {}
        /\ dfa.dfa_states[1] = {0}
        /\ is_accepting_state(dfa, 0) <=> 0 \in NFA_from_query(query).is_accepting

\* compiled: an accepting DFA state standing for an accepting and a
\* non-accepting NFA state, and a DFA state behind the start state that
\* does not accept
C29_Witness ==
    /\ JustCompiled
    /\ \E s \in 1..(dfa.num_states - 1) :
          /\ is_accepting_state(dfa, s)
          /\ dfa.dfa_states[s + 1] \ NFA_from_query(query).is_accepting # {}
          /\ dfa.dfa_states[s + 1] \cap NFA_from_query(query).is_accepting # {}
    /\ \E s \in 1..(dfa.num_states - 1) : ~is_accepting_state(dfa, s)

\* the places of the alphabet that hold the Field symbol of a name
FieldSymbols(d, name) == {i \in 1..Len(d.alphabet) : d.alphabet[i] = LField(name)}

\* the number of times a name occurs in the query
Occurrences(q, name) == Cardinality({i \in 1..Len(FieldsInOrder(q)) : FieldsInOrder(q)[i] = name})

\* C30: compiled alphabet contents - in every compiled DFA the alphabet
\* contains only Other, Field(name) and Range(lo, hi) with lo < hi;
\* FieldWildcard and RangeFrom never appear; each field name of the query
\* appears as exactly one Field symbol however often it occurs in the
\* query, and key_to_key_id maps it to that symbol's index.
C30_CompiledAlphabet ==
    Compiled =>
        /\ \A i \in 1..Len(dfa.alphabet) :
              /\ dfa.alphabet[i].l \in {"Other", "Field", "Range"}
              /\ dfa.alphabet[i].l = "Range" => dfa.alphabet[i].lo < dfa.alphabet[i].hi
        /\ \A name \in FieldNames(query) :
              /\ Cardinality(FieldSymbols(dfa, name)) = 1
              /\ \A e \in dfa.key_to_key_id :
                    e[1] = name => (e[2] + 1) \in FieldSymbols(dfa, name)
              /\ \E e \in dfa.key_to_key_id : e[1] = name

\* compiled: a query in which a name occurs twice, with a RangeFrom and a
\* Range whose endpoints cut the indices into several Range symbols
C30_Witness ==
    /\ Compiled
    /\ \E name \in FieldNames(query) : Occurrences(query, name) >= 2
    /\ \E i \in 1..Len(linearize_query(query)) : linearize_query(query)[i].l = "RangeFrom"
    /\ Cardinality({i \in 1..Len(dfa.alphabet) : dfa.alphabet[i].l = "Range"}) >= 2

\* the indices of a machine word
Indices == 0..UsizeMax

\* the raw range of an Index, Range, RangeFrom or ArrayWildcard with an
\* unbounded end that holds every index: Index i is [i, i+1), Range is
\* [lo or 0, hi or unbounded), RangeFrom is [lo, unbounded)
RawRange(a) ==
    CASE a.t = "Index" -> {a.lo}
      [] a.t = "Range" -> {i \in Indices : UnwrapOr(a.lo, 0) <= i /\ (a.hi = None \/ i < a.hi)}
      [] a.t = "RangeFrom" -> {i \in Indices : a.lo <= i}
      [] OTHER -> Indices

\* the raw range as extract_symbols collects it: the unbounded end is
\* usize::MAX and is exclusive like every end
CollectedRange(a) ==
    {i \in Indices : collected_ranges(a)[1][1] <= i /\ i < collected_ranges(a)[1][2]}

\* the indices of the k-th segment of range_to_range_id
Segment(d, k) == d.range_to_range_id[k].start..(d.range_to_range_id[k].end - 1)

\* the segments contained in a set of indices
SegmentsIn(d, R) == {k \in 1..Len(d.range_to_range_id) : Segment(d, k) \subseteq R}

\* every segment is inside or outside R, R is the union of the consecutive
\* segments inside it, and the label of the atom takes exactly those
RefinedBy(d, a, R) ==
    /\ \A k \in 1..Len(d.range_to_range_id) :
          Segment(d, k) \subseteq R \/ Segment(d, k) \cap R = {}
    /\ R = UNION {Segment(d, k) : k \in SegmentsIn(d, R)}
    /\ \A k, m \in SegmentsIn(d, R) : \A h \in k..m : h \in SegmentsIn(d, R)
    /\ \A k \in 1..Len(d.range_to_range_id) :
          Covers(linearize_query(a)[1], d.alphabet[d.range_to_range_id[k].id + 1])
              <=> k \in SegmentsIn(d, R)

MentionsIndex(q) == IndexAtoms(q) # {}

\* the intervals of range_to_range_id start at 0 and each ends where the
\* next one starts
PartitionsPrefix(d) ==
    /\ Len(d.range_to_range_id) >= 1
    /\ d.range_to_range_id[1].start = 0
    /\ \A k \in 1..(Len(d.range_to_range_id) - 1) :
          d.range_to_range_id[k].end = d.range_to_range_id[k + 1].start

ValidRanges(q) ==
    {collected_ranges(q)[k] : k \in {h \in 1..Len(collected_ranges(q)) :
                                        collected_ranges(q)[h][1] < collected_ranges(q)[h][2]}}

SymbolUsed(d, sym) ==
    \E s \in 0..(d.num_states - 1) : transition(d, s, sym) # Dead

\* C33 (as stated): every symbol is used - in every compiled DFA, for each symbol index
\* of the alphabet (Other and the refined Range segments included) there is
\* at least one state s with T[s][symbol] not dead.
C33_AsStated ==
    Compiled => \A sym \in SymbolIds(dfa) : SymbolUsed(dfa, sym)

\* every atom of the query is met by the automaton: each NFA state belongs
\* to the set of some DFA state
EveryAtomReached(d, q) ==
    \A p \in 1..count_subquery_positions(q) : \E s \in 1..Len(d.dfa_states) : p \in d.dfa_states[s]

\* the query holds a FieldWildcard
HasFieldWildcard(q) ==
    \E i \in 1..Len(linearize_query(q)) : linearize_query(q)[i] = LFieldWildcard

\* the segment of a Range symbol lies inside a range collected from an atom
InsideCollected(q, label) ==
    \E a \in IndexAtoms(q) :
        collected_ranges(a)[1][1] <= label.lo /\ label.hi <= collected_ranges(a)[1][2]

\* C33 (amended): in every compiled DFA of a query all of whose atoms the
\* automaton can meet, every Field symbol is used by at least one state,
\* Other is used exactly when the query holds a FieldWildcard, and a Range
\* segment is used exactly when it lies inside the range of some Index,
\* Range, RangeFrom or ArrayWildcard of the query.
C33_SymbolsUsed ==
    (Compiled /\ EveryAtomReached(dfa, query)) =>
        \A sym \in SymbolIds(dfa) :
            CASE dfa.alphabet[sym + 1].l = "Field" -> SymbolUsed(dfa, sym)
              [] dfa.alphabet[sym + 1].l = "Other" -> (SymbolUsed(dfa, sym) <=> HasFieldWildcard(query))
              [] OTHER -> (SymbolUsed(dfa, sym) <=> InsideCollected(query, dfa.alphabet[sym + 1]))

\* compiled: a DFA with a used Field symbol, the unused Other and a used
\* Range segment, and one with a Range segment in a gap that is not used
C33_Witness ==
    /\ Compiled /\ EveryAtomReached(dfa, query)
    /\ ~SymbolUsed(dfa, 0)
    /\ \E sym \in SymbolIds(dfa) : dfa.alphabet[sym + 1].l = "Field" /\ SymbolUsed(dfa, sym)
    /\ \E sym \in SymbolIds(dfa) : dfa.alphabet[sym + 1].l = "Range" /\ SymbolUsed(dfa, sym)

\* the answer of a linear scan over range_to_range_id: the id of the first
\* entry whose interval holds idx, None when there is none
LinearScan(d, idx) ==
    IF EntriesHolding(d, idx) = {} THEN None
    ELSE d.range_to_range_id[CHOOSE k \in EntriesHolding(d, idx) :
                                 \A m \in EntriesHolding(d, idx) : k <= m].id

LookupMiss ==
    /\ pc = "traverse" /\ Top.next \in 1..Len(TopValue.kids)
    /\ \/ SymbolOf(dfa, TopValue, Top.next) = None
       \/ transition(dfa, Top.state, SymbolOf(dfa, TopValue, Top.next)) = Dead

\* the step at a miss only moves the loop to the next sibling
MissIsLocal ==
    LookupMiss =>
        /\ stack' = [stack EXCEPT ![Len(stack)].next = Top.next + 1]
        /\ path' = path
        /\ results' = results
        /\ pc' = "traverse"

\* the children an activation has dealt with: those before the one its loop
\* turns to next, without the one whose own activation has not yet made its
\* accepting check
DealtWith(f) ==
    {j \in 1..(stack[f].next - 1) :
        ~(f < Len(stack) /\ j = stack[f].next - 1 /\ stack[f + 1].next = 0)}

\* whatever was skipped before it, every child dealt with that the DFA
\* enters in an accepting state is among the records
LaterSiblingsVisited ==
    pc = "traverse" =>
        \A f \in 1..Len(stack) : \A j \in DealtWith(f) :
            (/\ NextState(dfa, stack[f].state, ValueAt(json, stack[f].node), j) # Dead
             /\ is_accepting_state(dfa, NextState(dfa, stack[f].state, ValueAt(json, stack[f].node), j)))
                => Append(stack[f].node, j) \in Emitted

\* a[1] emits exactly the element 1 of the array under a
SimpleIndexAccess ==
    (pc = "done" /\ query = QSequence(<<Fa, QIndex(1)>>)) =>
        /\ Emitted = {n \in Nodes(json) : PathTo(json, n) = <<PField(<<"a">>), PIndex(1)>>}
        /\ Len(results) = Cardinality(Emitted)

\* C35: a lookup miss is local - when get_index_symbol_id has no symbol for
\* an array element, or the transition on an edge is dead, the matcher skips
\* only that element's sub-tree, pushes nothing on the path, raises no error
\* and still visits all later siblings (a[1] on a longer array emits exactly
\* element 1).
C35_LookupMissIsLocal ==
    /\ [][MissIsLocal]_vars
    /\ [](LaterSiblingsVisited /\ SimpleIndexAccess)

\* a[1] on an array of three: element 0 had no symbol, element 1 is
\* recorded, and the loop stands at element 2, again without a symbol
C35_Witness ==
    /\ pc = "traverse" /\ query = QSequence(<<Fa, QIndex(1)>>)
    /\ TopValue.kind = "Array" /\ Len(TopValue.kids) = 3 /\ Top.next = 3
    /\ get_index_symbol_id(dfa, 0) = None
    /\ SymbolOf(dfa, TopValue, Top.next) = None
    /\ Len(results) = 1 /\ results[1].path = <<PField(<<"a">>), PIndex(1)>>
    /\ Len(path) = 1

\* inside the walk the working path is the list of edges from the root to
\* the node of the top activation, one edge for each activation below the
\* top, and the activations are those of the ancestors of the node in order
PathIsRootToNode ==
    pc = "traverse" =>
        /\ path = PathTo(json, Top.node)
        /\ Len(path) = Len(Top.node)
        /\ Len(stack) = Len(path) + 1
        /\ \A f \in 1..Len(stack) : stack[f].node = SubSeq(Top.node, 1, f - 1)

\* a step of the walk pushes one edge together with the activation of the
\* child, pops one edge together with the return of a finished activation,
\* or leaves the path as it is
PushesMatchPops ==
    pc = "traverse" =>
        \/ /\ Len(stack') = Len(stack) + 1
           /\ path' = Append(path, EdgeOf(TopValue, Top.next))
        \/ /\ Len(stack') = Len(stack) - 1 /\ Len(stack) > 1
           /\ Top.next > Len(TopValue.kids)
           /\ path' = SubSeq(path, 1, Len(path) - 1)
        \/ /\ Len(stack') = Len(stack) - 1 /\ Len(stack) = 1
           /\ path' = path /\ path = <<>> /\ pc' = "done"
        \/ /\ Len(stack') = Len(stack)
           /\ path' = path

\* the records made so far stay as they are, paths included
RecordsAreSnapshots ==
    pc = "traverse" =>
        /\ Len(results') >= Len(results)
        /\ \A i \in 1..Len(results) : results'[i] = results[i]

\* C36: path stack discipline - at every visit of a node during the DFS the
\* working path is the sequence of edges from the root to that node (its
\* length is the depth of the node), every push is matched by exactly one
\* pop after the sub-tree of the child is finished, the stack is empty when
\* find returns, and the path stored in a record is a copy that later pushes
\* and pops do not change.
C36_PathStackDiscipline ==
    /\ [](PathIsRootToNode /\ (pc = "done" => path = <<>>))
    /\ [][PushesMatchPops /\ RecordsAreSnapshots]_vars

\* a visit at depth two or more while the records hold a path that is not a
\* prefix of the working path: it was stored before pops and pushes
C36_Witness ==
    /\ pc = "traverse" /\ Top.next = 0 /\ Len(path) >= 2
    /\ \E i \in 1..Len(results) :
          /\ Len(results[i].path) >= 1
          /\ Len(results[i].path) <= Len(path)
          /\ results[i].path # SubSeq(path, 1, Len(results[i].path))
          /\ results[i].path = PathTo(json, results[i].node)

\* the number of bars of a text outside every pair of parentheses, for a
\* text without quoted names and regexes
RECURSIVE TopLevelBars(_, _, _)
TopLevelBars(text, i, depth) ==
    IF i > Len(text) THEN 0
    ELSE CASE text[i] = "(" -> TopLevelBars(text, i + 1, depth + 1)
           [] text[i] = ")" -> TopLevelBars(text, i + 1, depth - 1)
           [] text[i] = "|" /\ depth = 0 -> 1 + TopLevelBars(text, i + 1, depth)
           [] OTHER -> TopLevelBars(text, i + 1, depth)

PlainText(text) == \A i \in 1..Len(text) : text[i] \notin {"\"", "/", "\\"}

\* every Disjunction of an AST has two alternatives or more, each of them a
\* Sequence
RECURSIVE DisjunctionsOfSequences(_)
DisjunctionsOfSequences(q) ==
    /\ q.t = "Disjunction" =>
          (Len(q.qs) >= 2 /\ \A i \in 1..Len(q.qs) : q.qs[i].t = "Sequence")
    /\ \A i \in 1..Len(q.qs) : DisjunctionsOfSequences(q.qs[i])

Ffoo == QField(<<"f", "o", "o">>)

\* C37: parser shape rules - the empty string parses to Sequence([]); a
\* sequence always yields a Sequence node, even with one step; a disjunction
\* with one alternative yields that alternative and with n > 1 alternatives
\* a Disjunction of n Sequences; a modifier after a field head with array
\* accessors wraps only the last accessor (foo[0]? gives Field(foo) followed
\* by Optional(Index(0)), the two in the Sequence of the step).
C37_ParserShapeRules ==
    tpc \in {"parsed", "rejected"} =>
        /\ input = <<>> => parsed = Ok(QSequence(<<>>))
        /\ parsed.ok =>
              /\ parsed.q.t \in {"Sequence", "Disjunction"}
              /\ DisjunctionsOfSequences(parsed.q)
              /\ PlainText(input) =>
                    IF TopLevelBars(input, 1, 0) = 0 THEN parsed.q.t = "Sequence"
                    ELSE /\ parsed.q.t = "Disjunction"
                         /\ Len(parsed.q.qs) = TopLevelBars(input, 1, 0) + 1
        /\ input = <<"f", "o", "o">> => parsed = Ok(QSequence(<<Ffoo>>))
        /\ input = <<"f", "o", "o", "[", "0", "]", "?">> =>
              parsed = Ok(QSequence(<<QSequence(<<Ffoo, QOptional(QIndex(0))>>)>>))
        /\ input = <<"f", "o", "o", "[", "0", "]", "[", "1", "]", "*">> =>
              parsed = Ok(QSequence(<<QSequence(<<Ffoo, QIndex(0), QKleeneStar(QIndex(1))>>)>>))

\* parsed: foo[0]?
C37_Witness ==
    /\ tpc = "parsed"
    /\ input = <<"f", "o", "o", "[", "0", "]", "?">>
    /\ parsed.q.qs[1].qs[2] = QOptional(QIndex(0))

RECURSIVE Pow2(_)
Pow2(n) == IF n = 0 THEN 1 ELSE 2 * Pow2(n - 1)

\* C38: determinization terminates - for every NFA with P + 1 states the
\* subset construction ends with each set of NFA states it met interned and
\* enqueued once: the sets of the DFA states are non-empty sets of NFA
\* states, pairwise distinct, one for each DFA state, and there are at most
\* 2^(P+1) of them.
C38_DeterminizationBounded ==
    (Compiled /\ ~IsEmptyQuery(query)) =>
        /\ dfa.num_states = Len(dfa.dfa_states)
        /\ dfa.dfa_states[1] = {0}
        /\ \A i \in 1..Len(dfa.dfa_states) :
              /\ dfa.dfa_states[i] # {}
              /\ dfa.dfa_states[i] \subseteq 0..count_subquery_positions(query)
        /\ \A i, j \in 1..Len(dfa.dfa_states) :
              i # j => dfa.dfa_states[i] # dfa.dfa_states[j]
        /\ dfa.num_states <= Pow2(count_subquery_positions(query) + 1)

\* compiled: a DFA of three states or more with a set of two NFA states and
\* a transition back to a set interned before
C38_Witness ==
    /\ Compiled /\ dfa.num_states >= 3
    /\ \E i \in 1..Len(dfa.dfa_states) : Cardinality(dfa.dfa_states[i]) >= 2
    /\ \E s \in 1..Len(dfa.transitions) : \E a \in 1..Len(dfa.alphabet) :
          dfa.transitions[s][a] # Dead /\ dfa.transitions[s][a] + 1 <= s

\* the states of a DFA reached from the states of S along non-dead entries
RECURSIVE ReachableFrom(_, _)
ReachableFrom(d, S) ==
    IF {d.transitions[s + 1][a] : s \in S, a \in 1..Len(d.alphabet)} \subseteq (S \cup {Dead})
    THEN S
    ELSE ReachableFrom(d, S \cup ({d.transitions[s + 1][a] : s \in S, a \in 1..Len(d.alphabet)}
                                     \ {Dead}))

\* state and symbol arguments around and beyond the sizes of a DFA
ProbeArgs(d) == 0..(d.num_states + Len(d.alphabet) + 1)

\* C39: transition table well-formedness - in every DFA built by
\* determinization, transitions has one row per state and one column per
\* alphabet symbol, and every non-dead entry is a state index below
\* num_states reachable from state 0; for the empty-query DFA, whose table
\* and alphabet are empty while num_states is 1, transition is dead for
\* every argument; is_accepting_state is false for every state index at or
\* beyond num_states, and no lookup reads outside the table.
C39_TableWellFormed ==
    Compiled =>
        /\ ~IsEmptyQuery(query) =>
              /\ Len(dfa.transitions) = dfa.num_states
              /\ Len(dfa.is_accepting) = dfa.num_states
              /\ \A s \in 1..dfa.num_states : Len(dfa.transitions[s]) = Len(dfa.alphabet)
              /\ \A s \in 1..dfa.num_states : \A a \in 1..Len(dfa.alphabet) :
                    dfa.transitions[s][a] # Dead =>
                        /\ dfa.transitions[s][a] \in 0..(dfa.num_states - 1)
                        /\ dfa.transitions[s][a] \in ReachableFrom(dfa, {0})
              /\ ReachableFrom(dfa, {0}) = 0..(dfa.num_states - 1)
        /\ IsEmptyQuery(query) =>
              /\ dfa.transitions = <<>> /\ dfa.alphabet = <<>> /\ dfa.num_states = 1
              /\ \A s, a \in ProbeArgs(dfa) : transition(dfa, s, a) = Dead
              /\ is_accepting_state(dfa, 0)
        /\ \A s \in ProbeArgs(dfa) :
              /\ s >= dfa.num_states => ~is_accepting_state(dfa, s)
              /\ \A a \in ProbeArgs(dfa) :
                    (s >= dfa.num_states \/ a >= Len(dfa.alphabet)) => transition(dfa, s, a) = Dead

\* compiled: a DFA of three states or more whose last state is entered from
\* a state other than the start, and whose Other column is not all dead
C39_Witness ==
    /\ Compiled /\ dfa.num_states >= 3
    /\ \E s \in 2..dfa.num_states : \E a \in 1..Len(dfa.alphabet) :
          dfa.transitions[s][a] = dfa.num_states - 1
    /\ \E s \in 1..dfa.num_states : dfa.transitions[s][1] # Dead

\* C40: no integer overflow in interval construction - turning Index(i) into
\* the interval [i, i+1) during symbol collection and NFA labelling never
\* overflows, for every index of the machine word: a query with
\* Index(usize::MAX) compiles (find does not panic) and its DFA has a symbol
\* for the index usize::MAX and for no other index.
C40_NoOverflow ==
    index_overflows(query) =>
        /\ pc # "panicked"
        /\ (Compiled /\ query = QSequence(<<QIndex(UsizeMax)>>)) =>
              /\ get_index_symbol_id(dfa, UsizeMax) # None
              /\ \A i \in 0..(UsizeMax - 1) : get_index_symbol_id(dfa, i) = None

====
